---- MODULE Spec2Model ----
(***************************************************************************)
(* A model of CMSnet (src/cmsnet/cms_net.py), of its components            *)
(* VirtualMachine and Hypervisor (src/cmsnet/cms_comp.py) and of the       *)
(* operator-facing wrappers of CMSAPI (src/cmsnet/cms_api.py).             *)
(*                                                                         *)
(* A handler is a function from a network state (a record) to the network *)
(* state it leaves behind; a raised exception is the field exc of the      *)
(* result, and what the handler had already written before raising stays   *)
(* written.  Every action of the specification applies one whole handler.  *)
(***************************************************************************)
EXTENDS Integers, Sequences, FiniteSets, TLC

\* ---------------------------------------------------------------- universe
VMNames == {"v1", "v2"}
HVNames == {"h1", "h2"}
\* The lists self.HVs can hold once start() has collected the hypervisors.
HVLists == {<< >>, <<"h1">>, <<"h1", "h2">>}
\* The hypervisors whose saved configuration may set a limit of their own.
OwnLimitHVs == {"h1"}
None == "None"
Dummy == "dummy"
NoNode == "nonode"
NoExc == "ok"
\* No configuration file saved under a name.
NoFile == [file |-> "none"]
\* VirtualMachine.__init__: tenant_id=1.
DefaultTenant == 1
\* The largest network-wide limit and the largest hypervisor's own limit tried.
MaxLimit == 2
MaxHVLimit == 1

\* getPossibleVMDistModes: the names of the _vm_dist_* methods.
possible_modes ==
    {"random", "sparse", "packed", "same", "different", "next", "previous"}

VARIABLES
    HVs,                \* CMSnet.HVs: the list of hypervisor names
    VMs,                \* CMSnet.VMs: the registered VMs
    nameToComp,         \* CMSnet.nameToComp: the keys of the name map
    hv,                 \* VirtualMachine._hv, None when inactive
    paused,             \* VirtualMachine._is_paused
    link,               \* the node that holds the far end of the VM's link
    nameToVMs,          \* Hypervisor.nameToVMs: the keys, per hypervisor
    enabled,            \* Hypervisor._enabled
    hv_limit,           \* Hypervisor._vm_dist_limit, 0 for None
    vm_dist_mode,       \* CMSnet.vm_dist_mode
    vm_dist_limit,      \* CMSnet.vm_dist_limit
    last_HV,            \* CMSnet.last_HV
    controller_socket,  \* CMSnet.controller_socket is set (connected)
    vm_script,          \* VirtualMachine._vm_script
    vm_script_params,   \* VirtualMachine._vm_script_params, as a set of pairs
    tenant_id,          \* VirtualMachine._tenant_id
    config,             \* the saved configuration file of each VM name
    sent,               \* what the last operation sent to the controller
    replayed,           \* the VM-to-hypervisor map all messages sent add up to
    fabric,             \* the Mininet nodes' port and name tables
    cycle,              \* the hypervisor cycle and the position in it
    comps               \* the VM objects, their names and the maps keyed by name

vars == <<HVs, VMs, nameToComp, hv, paused, link, nameToVMs, enabled, hv_limit,
          vm_dist_mode, vm_dist_limit, last_HV, controller_socket, vm_script, vm_script_params,
          tenant_id, config, sent, replayed, fabric, cycle, comps>>

\* The variables of the network above the fabric tables and the cycle.
netvars ==
    <<HVs, VMs, nameToComp, hv, paused, link, nameToVMs, enabled, hv_limit,
      vm_dist_mode, vm_dist_limit, last_HV, controller_socket, vm_script,
      vm_script_params, tenant_id, config, sent, replayed>>

\* The network state handed to a handler: no message sent yet, no exception,
\* and a side channel that works (the socket's send and the writes of the
\* configuration files succeed).
St ==
    [HVs |-> HVs, VMs |-> VMs, nameToComp |-> nameToComp, hv |-> hv,
     paused |-> paused, link |-> link, nameToVMs |-> nameToVMs,
     enabled |-> enabled, hv_limit |-> hv_limit, vm_dist_mode |-> vm_dist_mode,
     vm_dist_limit |-> vm_dist_limit, last_HV |-> last_HV,
     controller_socket |-> controller_socket, vm_script |-> vm_script,
     vm_script_params |-> vm_script_params, tenant_id |-> tenant_id,
     config |-> config, send_fails |-> FALSE, write_fails |-> FALSE,
     sent |-> << >>, exc |-> NoExc]

Raise(s, e) == [s EXCEPT !.exc = e]

HVSet(s) == {s.HVs[i] : i \in 1..Len(s.HVs)}

\* ------------------------------------------------------------ components
is_running(s, vm) == s.hv[vm] # None

\* A variant that reports the flag alone.
is_paused_flag(s, vm) == s.paused[vm]

is_paused(s, vm) == is_running(s, vm) /\ s.paused[vm]

\* A variant that takes every hypervisor for enabled.
is_enabled_any(s, h) == TRUE

is_enabled(s, h) == s.enabled[h]

\* VirtualMachine.set_comp_config: what the VM's file is to hold.
set_comp_config(s, vm) ==
    [vm_script |-> s.vm_script[vm],
     vm_script_params |-> s.vm_script_params[vm],
     tenant_id |-> s.tenant_id[vm],
     config_hv_name |-> s.hv[vm],
     config_is_paused |-> is_paused(s, vm)]

\* A variant of update_comp_config that lets a failing write escape.
update_comp_config_raises(s, vm) ==
    IF s.exc # NoExc THEN s
    ELSE IF s.write_fails THEN Raise(s, "IOError")
    ELSE [s EXCEPT !.config[vm] = set_comp_config(s, vm)]

\* update_comp_config of a VM whose file is not locked: a write that fails
\* is logged and forgotten.
update_comp_config(s, vm) ==
    IF s.exc # NoExc THEN s
    ELSE IF s.write_fails THEN s
    ELSE [s EXCEPT !.config[vm] = set_comp_config(s, vm)]

\* check_comp_config of a new VM that finds a file under its name: the
\* attributes come from the file (the running state it names is for
\* get_old_VMs to restore); the file stays locked, so nothing is written.
check_comp_config(s, vm) ==
    IF s.exc # NoExc THEN s
    ELSE [s EXCEPT !.vm_script[vm] = s.config[vm].vm_script,
                   !.vm_script_params[vm] = s.config[vm].vm_script_params,
                   !.tenant_id[vm] = s.config[vm].tenant_id]

\* A variant of the setter that never leaves the old hosted set.
set_hv_keepOld(s, vm, h) ==
    LET n2 == IF h # None
              THEN [s.nameToVMs EXCEPT ![h] = @ \cup {vm}]
              ELSE s.nameToVMs
    IN  update_comp_config([s EXCEPT !.hv[vm] = h, !.nameToVMs = n2], vm)

\* The setter of VirtualMachine.hv: leave the old hosted set, enter the new,
\* save the configuration.
set_hv(s, vm, h) ==
    LET old == s.hv[vm]
        n1 == IF old # None
              THEN [s.nameToVMs EXCEPT ![old] = @ \ {vm}]
              ELSE s.nameToVMs
        n2 == IF h # None THEN [n1 EXCEPT ![h] = @ \cup {vm}] ELSE n1
    IN  update_comp_config([s EXCEPT !.hv[vm] = h, !.nameToVMs = n2], vm)

launchOn(s, vm, h) ==
    IF s.exc # NoExc THEN s
    ELSE IF is_running(s, vm) \/ h = None \/ ~is_enabled(s, h)
         THEN Raise(s, "AssertionError")
         ELSE set_hv(s, vm, h)

moveTo(s, vm, h) ==
    IF s.exc # NoExc THEN s
    ELSE IF ~is_running(s, vm) \/ h = None \/ ~is_enabled(s, h)
         THEN Raise(s, "AssertionError")
         ELSE set_hv(s, vm, h)

vm_pause(s, vm) ==
    IF s.exc # NoExc THEN s
    ELSE IF ~is_running(s, vm) \/ is_paused(s, vm)
         THEN Raise(s, "AssertionError")
         ELSE update_comp_config([s EXCEPT !.paused[vm] = TRUE], vm)

vm_resume(s, vm) ==
    IF s.exc # NoExc THEN s
    ELSE IF ~is_running(s, vm) \/ ~is_paused(s, vm)
         THEN Raise(s, "AssertionError")
         ELSE update_comp_config([s EXCEPT !.paused[vm] = FALSE], vm)

vm_stop(s, vm) ==
    IF s.exc # NoExc THEN s
    ELSE IF ~is_running(s, vm)
         THEN Raise(s, "AssertionError")
         ELSE set_hv(s, vm, None)

\* The setter of vm_script: a script that is set must be among the network's
\* possible scripts, which getPossibleVMScripts leaves None.
set_vm_script(s, vm, script) ==
    IF s.exc # NoExc THEN s
    ELSE IF script # None THEN Raise(s, "TypeError")
    ELSE update_comp_config([s EXCEPT !.vm_script[vm] = script], vm)

\* The setter of vm_script_params: a dictionary of its own, then a save.
set_vm_script_params(s, vm, params) ==
    IF s.exc # NoExc THEN s
    ELSE update_comp_config([s EXCEPT !.vm_script_params[vm] = params], vm)

\* A variant of cloneTo that hands the source's tenant id over to the clone.
cloneTo_moveTenant(s, vm, new_vm) ==
    IF s.exc # NoExc THEN s
    ELSE IF is_running(s, new_vm) THEN Raise(s, "AssertionError")
    ELSE LET s1 == set_vm_script(s, new_vm, s.vm_script[vm])
             s2 == set_vm_script_params(s1, new_vm, s.vm_script_params[vm])
         IN  IF s2.exc # NoExc THEN s2
             ELSE [s2 EXCEPT !.tenant_id[new_vm] = s.tenant_id[vm],
                             !.tenant_id[vm] = DefaultTenant]

cloneTo(s, vm, new_vm) ==
    IF s.exc # NoExc THEN s
    ELSE IF is_running(s, new_vm) THEN Raise(s, "AssertionError")
    ELSE LET s1 == set_vm_script(s, new_vm, s.vm_script[vm])
             s2 == set_vm_script_params(s1, new_vm, s.vm_script_params[vm])
         IN  IF s2.exc # NoExc THEN s2
             ELSE [s2 EXCEPT !.tenant_id[new_vm] = s.tenant_id[vm]]

hv_enable(s, h) ==
    IF s.exc # NoExc THEN s
    ELSE IF is_enabled(s, h) THEN Raise(s, "AssertionError")
         ELSE [s EXCEPT !.enabled[h] = TRUE]

hv_disable(s, h) ==
    IF s.exc # NoExc THEN s
    ELSE IF ~is_enabled(s, h) THEN Raise(s, "AssertionError")
         ELSE [s EXCEPT !.enabled[h] = FALSE]

\* ------------------------------------------------------------ the notifier
\* A variant of the notifier that keeps 'destroyed' to itself.
send_msg_no_destroyed(s, cmd, vm) ==
    IF s.exc # NoExc THEN s
    ELSE IF s.controller_socket /\ cmd # "destroyed"
         THEN [s EXCEPT !.sent =
                  Append(@, [cmd |-> cmd, host |-> vm, new_hv |-> s.hv[vm]])]
         ELSE s

\* send_msg_to_controller: the message is built from the VM as it is now, and
\* goes out only when a controller socket is connected and its send succeeds.
send_msg_to_controller(s, cmd, vm) ==
    IF s.exc # NoExc THEN s
    ELSE IF s.controller_socket /\ ~s.send_fails    \* a failed send is logged
         THEN [s EXCEPT !.sent =
                  Append(@, [cmd |-> cmd, host |-> vm, new_hv |-> s.hv[vm]])]
         ELSE s

\* ------------------------------------------------------- topology rewiring
\* _moveLink(vm.node, node2) with default interface names: the far end of the
\* VM's link leaves the node that holds it and enters node2.
moveLink(s, vm, node2) ==
    IF s.exc # NoExc THEN s
    ELSE IF s.link[vm] = NoNode THEN Raise(s, "AssertionError")
    ELSE IF s.link[vm] = node2 THEN s        \* 'connection already established'
    ELSE [s EXCEPT !.link[vm] = node2]

\* _removeLink(vm.node): to the dummy, unless the link is there already.
removeLink(s, vm) ==
    IF s.exc # NoExc THEN s
    ELSE IF s.link[vm] = NoNode THEN Raise(s, "AssertionError")
    ELSE IF s.link[vm] = Dummy THEN s        \* 'intf already removed'
    ELSE moveLink(s, vm, Dummy)

\* ------------------------------------------------------ the fabric tables
\* Under link: the Mininet nodes with their tables. Each host of a VM has
\* one interface; the interface at the far end of its link (intf1_other) is
\* named after the host here. A fabric record f holds
\*   node[h], name[h]    intf.node and intf.name of the far end of h
\*   intfs[n]            node.intfs: port -> interface
\*   ports[n]            node.ports: interface -> port
\*   nameToIntf[n]       node.nameToIntf: name -> interface
\*   caps                the nodes that have attach() and detach()
\*   steps               what the last call did, each step with the tables
\*                       as they stood when it was made
\*   fail                the fabric step that fails in this call, if any
\*   dummy_exists        'dummy' is in mn.nameToNode
FabHosts == {"v1", "v2"}

FabSwitches == {"h1", "h2"}

FabNodes == FabSwitches \cup {Dummy}

\* The highest port number followed.
MaxPort == 3

FailKinds == {"none", "detach", "moveIntf", "attach"}

\* Node.portBase is 0, Switch.portBase is 1.
portBase(node) == IF node = Dummy THEN 0 ELSE 1

Max(S) == CHOOSE x \in S : \A y \in S : y <= x

Range(fn) == {fn[k] : k \in DOMAIN fn}

\* A variant of newPort that always hands out the first port.
newPort_first(f, node) == portBase(node)

\* Node.newPort: one above the highest port in node.ports, portBase if the
\* node has no port.
newPort(f, node) ==
    IF DOMAIN f.ports[node] = {}
    THEN portBase(node)
    ELSE Max(Range(f.ports[node])) + 1

\* del d[k] and d[k] = v on a dictionary.
Del(fn, k) == [x \in DOMAIN fn \ {k} |-> fn[x]]

Put(fn, k, v) == [x \in DOMAIN fn \cup {k} |-> IF x = k THEN v ELSE fn[x]]

Tables(f) ==
    [node |-> f.node, name |-> f.name, intfs |-> f.intfs, ports |-> f.ports,
     nameToIntf |-> f.nameToIntf]

Step(f, ev, node, host) ==
    [f EXCEPT !.steps = Append(@, [ev |-> ev, node |-> node, host |-> host,
                                   tables |-> Tables(f)])]

\* "%s-eth%d" % (node.name, port)
intfName(node, port) == node \o "-eth" \o ToString(port)

\* A variant of _moveLink that attaches before it detaches and exchanges the
\* tables.
fab_moveLink_attachFirst(f, host, node2, intf2_name) ==
    IF f.exc # NoExc THEN f
    ELSE
    LET node1_other == f.node[host]
        f1 == IF node2 \in f.caps THEN Step(f, "attach", node2, host) ELSE f
        f2 == IF node1_other \in f.caps
              THEN Step(f1, "detach", node1_other, host) ELSE f1
        port == newPort(f2, node2)
        name == IF intf2_name = None THEN intfName(node2, port)
                ELSE intf2_name
        gone == [f2 EXCEPT
                   !.intfs[node1_other] = Del(@, f.ports[node1_other][host]),
                   !.ports[node1_other] = Del(@, host),
                   !.nameToIntf[node1_other] = Del(@, f.name[host])]
    IN  [gone EXCEPT !.name[host] = name,
                     !.node[host] = node2,
                     !.intfs[node2] = Put(@, port, host),
                     !.ports[node2] = Put(@, host, port),
                     !.nameToIntf[node2] = Put(@, name, host)]

\* _moveLink(node1, node2, None, intf2_name) for the host node1 = host.
fab_moveLink(f, host, node2, intf2_name) ==
    IF f.exc # NoExc THEN f
    ELSE IF intf2_name # None /\ intf2_name \in DOMAIN f.nameToIntf[node2]
    THEN Raise(f, "AssertionError")
    ELSE IF host \notin DOMAIN f.ports[f.node[host]]
    THEN Raise(f, "KeyError")              \* node1_other.ports[intf1_other]
    ELSE
    LET node1_other == f.node[host]
        intf1_name_other == f.name[host]
        intf1_port_other == f.ports[node1_other][host]
    IN
    IF node1_other = node2
       /\ (intf2_name = None \/ intf2_name = intf1_name_other)
    THEN Step(f, "established", node2, host)  \* 'connection already established'
    ELSE
    \* Part 1.5: detach() on the node that has one.
    LET f1 == IF node1_other \notin f.caps THEN f
              ELSE IF f.fail = "detach" THEN Raise(f, "DetachError")
              ELSE Step(f, "detach", node1_other, host)
    IN
    IF f1.exc # NoExc THEN f1
    ELSE
    \* Part 2: the three deletions, then the three insertions.
    LET f2 == [f1 EXCEPT !.intfs[node1_other] = Del(@, intf1_port_other),
                         !.ports[node1_other] = Del(@, host)]
    IN
    IF intf1_name_other \notin DOMAIN f2.nameToIntf[node1_other]
    THEN Raise(f2, "KeyError")
    ELSE
    LET f3 == Step([f2 EXCEPT !.nameToIntf[node1_other] =
                                  Del(@, intf1_name_other)],
                   "removed", node1_other, host)
        intf2_port == newPort(f3, node2)
        name == IF intf2_name = None THEN intfName(node2, intf2_port)
                ELSE intf2_name
        f4 == Step([f3 EXCEPT !.name[host] = name,
                              !.node[host] = node2,
                              !.intfs[node2] = Put(@, intf2_port, host),
                              !.ports[node2] = Put(@, host, intf2_port),
                              !.nameToIntf[node2] = Put(@, name, host)],
                   "inserted", node2, host)
    IN
    \* Part 3: moveIntf; Part 3.5: attach() on the node that has one.
    IF f.fail = "moveIntf" THEN Raise(f4, "MoveIntfError")
    ELSE
    LET f5 == Step(f4, "moveIntf", node2, host)
    IN  IF node2 \notin f.caps THEN f5
        ELSE IF f.fail = "attach" THEN Raise(f5, "AttachError")
        ELSE Step(f5, "attach", node2, host)

\* A variant of _removeLink without the special case of a host on the dummy.
fab_removeLink_always(f, host, remove_only_once) ==
    IF f.exc # NoExc THEN f
    ELSE IF ~f.dummy_exists
    THEN Step(f, "error", Dummy, host)
    ELSE fab_moveLink(f, host, Dummy,
                      "dummy-eth" \o ToString(newPort(f, Dummy)))

\* _removeLink(node, None, remove_only_once) for the host node = host.
fab_removeLink(f, host, remove_only_once) ==
    IF f.exc # NoExc THEN f
    ELSE IF ~f.dummy_exists
    THEN Step(f, "error", Dummy, host)     \* 'dummy node does not exist'
    ELSE IF remove_only_once /\ f.node[host] = Dummy
    THEN Step(f, "removed_already", Dummy, host)  \* 'intf already removed'
    ELSE fab_moveLink(f, host, Dummy,
                      "dummy-eth" \o ToString(newPort(f, Dummy)))

\* _swapLink(node1, node2) for the hosts node1 = host1, node2 = host2.
fab_swapLink(f, host1, host2) ==
    IF f.exc # NoExc THEN f
    ELSE
    LET node1_other == f.node[host1]
        intf1_name_other == f.name[host1]
        node2_other == f.node[host2]
        intf2_name_other == f.name[host2]
        f1 == fab_removeLink(f, host1, FALSE)
        f2 == fab_moveLink(f1, host2, node1_other, intf1_name_other)
    IN  fab_moveLink(f2, host1, node2_other, intf2_name_other)

\* _createHostAtDummy(hostName): the new host gets a link to the dummy under
\* the dummy's next port; with no dummy node the error is logged and the
\* call returns (None).
fab_createHostAtDummy(f, hostName) ==
    IF f.exc # NoExc THEN f
    ELSE IF hostName \in DOMAIN f.node
    THEN Raise(f, "AssertionError")
    ELSE IF ~f.dummy_exists
    THEN Step(f, "error", Dummy, hostName)   \* 'dummy node does not exist'
    ELSE LET dummyPort == newPort(f, Dummy)
             f1 == [f EXCEPT
                      !.node = Put(@, hostName, Dummy),
                      !.name = Put(@, hostName, intfName(Dummy, dummyPort)),
                      !.intfs[Dummy] = Put(@, dummyPort, hostName),
                      !.ports[Dummy] = Put(@, hostName, dummyPort),
                      !.nameToIntf[Dummy] =
                          Put(@, intfName(Dummy, dummyPort), hostName)]
         IN  Step(f1, "created", Dummy, hostName)

\* ------------------------------------------------------ placement policies
NumVMs(s, h) == Cardinality(s.nameToVMs[h])

\* The limit isHVFull compares with: the hypervisor's own when it has one.
effective_limit(s, h) ==
    IF s.hv_limit[h] # 0 THEN s.hv_limit[h] ELSE s.vm_dist_limit

isHVFull(s, h) == NumVMs(s, h) >= effective_limit(s, h)

\* Python's min(list, key) and max(list, key): the first element, in list
\* order, whose key is the least (the greatest).
FirstMin(s, idx) ==
    LET i == CHOOSE i \in idx :
                 /\ \A j \in idx : NumVMs(s, s.HVs[i]) <= NumVMs(s, s.HVs[j])
                 /\ \A j \in idx : (j < i) =>
                        NumVMs(s, s.HVs[j]) > NumVMs(s, s.HVs[i])
    IN  s.HVs[i]

FirstMax(s, idx) ==
    LET i == CHOOSE i \in idx :
                 /\ \A j \in idx : NumVMs(s, s.HVs[i]) >= NumVMs(s, s.HVs[j])
                 /\ \A j \in idx : (j < i) =>
                        NumVMs(s, s.HVs[j]) < NumVMs(s, s.HVs[i])
    IN  s.HVs[i]

IndexOf(s, h) == CHOOSE i \in 1..Len(s.HVs) : s.HVs[i] = h

\* A placement answer: the hypervisor chosen (None for none), or an exception.
Chosen(h) == [hv |-> h, exc |-> NoExc]

\* The values random.choice can return in state s: a member of the list it is
\* given (nothing when the list is empty, or when the mode draws nothing).
Draws(s) ==
    IF HVSet(s) = {} THEN {None}
    ELSE IF s.vm_dist_mode = "random" THEN HVSet(s)
    ELSE IF s.vm_dist_mode = "different" /\ s.last_HV # None
              /\ HVSet(s) \ {s.last_HV} # {}
         THEN HVSet(s) \ {s.last_HV}
         ELSE {None}

vm_dist_random(s, rnd) == Chosen(rnd)

\* A variant of _vm_dist_sparse that takes the last of the hypervisors with
\* the fewest VMs.
vm_dist_sparse_last(s) ==
    LET idx == 1..Len(s.HVs)
        i == CHOOSE i \in idx :
                 /\ \A j \in idx : NumVMs(s, s.HVs[i]) <= NumVMs(s, s.HVs[j])
                 /\ \A j \in idx : (j > i) =>
                        NumVMs(s, s.HVs[j]) > NumVMs(s, s.HVs[i])
    IN  Chosen(s.HVs[i])

vm_dist_sparse(s) == Chosen(FirstMin(s, 1..Len(s.HVs)))

\* A variant of _vm_dist_packed that compares every hypervisor with the
\* network's limit.
vm_dist_packed_netLimit(s) ==
    LET avail == {i \in 1..Len(s.HVs) :
                     NumVMs(s, s.HVs[i]) < s.vm_dist_limit}
    IN  IF avail = {} THEN Chosen(None) ELSE Chosen(FirstMax(s, avail))

vm_dist_packed(s) ==
    LET avail == {i \in 1..Len(s.HVs) : ~isHVFull(s, s.HVs[i])}
    IN  IF avail = {} THEN Chosen(None) ELSE Chosen(FirstMax(s, avail))

vm_dist_same(s) == Chosen(s.last_HV)

vm_dist_different(s, rnd) ==
    IF s.last_HV = None THEN Chosen(None)
    ELSE IF HVSet(s) \ {s.last_HV} = {}
         THEN [hv |-> None, exc |-> "IndexError"]   \* random.choice([])
         ELSE Chosen(rnd)

vm_dist_next(s) ==
    IF s.last_HV = None THEN Chosen(None)
    ELSE Chosen(s.HVs[((IndexOf(s, s.last_HV) - 1 + 1) % Len(s.HVs)) + 1])

vm_dist_previous(s) ==
    IF s.last_HV = None THEN Chosen(None)
    ELSE Chosen(s.HVs[((IndexOf(s, s.last_HV) - 1 - 1) % Len(s.HVs)) + 1])

getNextDefaultHV(s, rnd) ==
    IF Len(s.HVs) = 0 THEN Chosen(None)
    ELSE IF s.vm_dist_mode \notin possible_modes THEN Chosen(None)
    ELSE CASE s.vm_dist_mode = "random"    -> vm_dist_random(s, rnd)
           [] s.vm_dist_mode = "sparse"    -> vm_dist_sparse(s)
           [] s.vm_dist_mode = "packed"    -> vm_dist_packed(s)
           [] s.vm_dist_mode = "same"      -> vm_dist_same(s)
           [] s.vm_dist_mode = "different" -> vm_dist_different(s, rnd)
           [] s.vm_dist_mode = "next"      -> vm_dist_next(s)
           [] s.vm_dist_mode = "previous"  -> vm_dist_previous(s)

\* --------------------------------------------------------------- CMSnet
not_implemented(s) == s

\* VirtualMachine.__init__: the defaults, then the saved configuration if
\* there is one, else a first save.
\* The component is taken to be given the network's information (a
\* dictionary with config_folder and possible_scripts), as its constructor
\* expects; createVM and get_hypervisors as written hand it the folder's path.
vm_init(s, name) ==
    LET s1 == [s EXCEPT !.hv[name] = None,
                        !.paused[name] = FALSE,
                        !.vm_script[name] = None,
                        !.vm_script_params[name] = {},
                        !.tenant_id[name] = DefaultTenant]
    IN  IF s1.config[name] = NoFile
        THEN update_comp_config(s1, name)
        ELSE check_comp_config(s1, name)

createVM(s, name) ==
    IF s.exc # NoExc THEN s
    ELSE IF name \in s.nameToComp THEN Raise(s, "AssertionError")
    ELSE LET s1 == [s EXCEPT !.link[name] = Dummy]    \* _createHostAtDummy
             s2 == vm_init(s1, name)
         IN  IF s2.exc # NoExc THEN s2
             ELSE [s2 EXCEPT !.VMs = @ \cup {name},
                             !.nameToComp = @ \cup {name}]

\* A variant of the default clone name with one '.cp' and no loop.
default_clone_name_once(s, name) == name \o ".cp"

\* The default name of a clone: the loop of cloneVM started at the source's
\* name, '.cp' appended while the name is in nameToComp.
RECURSIVE default_clone_name(_, _)
default_clone_name(s, name) ==
    IF name \in s.nameToComp
    THEN default_clone_name(s, name \o ".cp")
    ELSE name

\* cloneVM: new_vm_name = None asks for the default name.
cloneVM(s, old_vm, new_vm_name) ==
    IF s.exc # NoExc THEN s
    ELSE
    LET new == IF new_vm_name = None
               THEN default_clone_name(s, old_vm)
               ELSE new_vm_name
    IN  IF old_vm \notin s.VMs \/ new \in s.nameToComp
        THEN Raise(s, "AssertionError")
        ELSE cloneTo(createVM(s, new), old_vm, new)

\* A variant of launchVM that leaves the VM's link where it is.
launchVM_noMove(s, vm, h, rnd) ==
    IF s.exc # NoExc THEN s
    ELSE
    LET pick == IF h = None THEN getNextDefaultHV(s, rnd) ELSE Chosen(h) IN
    IF pick.exc # NoExc THEN Raise(s, pick.exc)
    ELSE IF pick.hv = None THEN s
    ELSE IF \/ vm \notin s.VMs
            \/ pick.hv \notin HVSet(s)
            \/ is_running(s, vm)
            \/ ~is_enabled(s, pick.hv)
         THEN Raise(s, "AssertionError")
    ELSE LET s2 == launchOn(s, vm, pick.hv)
             s3 == IF s2.exc # NoExc THEN s2
                   ELSE [s2 EXCEPT !.last_HV = pick.hv]
         IN  send_msg_to_controller(s3, "instantiated", vm)

\* launchVM: the method it calls on the VM, vm.launch(hv), is the component's
\* VirtualMachine.launchOn.
launchVM(s, vm, h, rnd) ==
    IF s.exc # NoExc THEN s
    ELSE
    LET pick == IF h = None THEN getNextDefaultHV(s, rnd) ELSE Chosen(h) IN
    IF pick.exc # NoExc THEN Raise(s, pick.exc)
    ELSE IF pick.hv = None THEN s                 \* return and do nothing
    ELSE IF \/ vm \notin s.VMs
            \/ pick.hv \notin HVSet(s)
            \/ is_running(s, vm)
            \/ ~is_enabled(s, pick.hv)
         THEN Raise(s, "AssertionError")
    ELSE LET s1 == moveLink(s, vm, pick.hv)
             s2 == launchOn(s1, vm, pick.hv)
             s3 == IF s2.exc # NoExc THEN s2
                   ELSE [s2 EXCEPT !.last_HV = pick.hv]
         IN  send_msg_to_controller(s3, "instantiated", vm)

\* A variant of migrateVM that tells the controller before it moves the VM.
migrateVM_sendFirst(s, vm, h) ==
    IF s.exc # NoExc THEN s
    ELSE IF \/ vm \notin s.VMs
            \/ h \notin HVSet(s)
            \/ ~is_running(s, vm)
            \/ ~is_enabled(s, h)
         THEN Raise(s, "AssertionError")
    ELSE LET s1 == send_msg_to_controller(s, "migrated", vm)
             s2 == moveLink(s1, vm, h)
         IN  moveTo(s2, vm, h)

migrateVM(s, vm, h) ==
    IF s.exc # NoExc THEN s
    ELSE IF \/ vm \notin s.VMs
            \/ h \notin HVSet(s)
            \/ ~is_running(s, vm)
            \/ ~is_enabled(s, h)
         THEN Raise(s, "AssertionError")
    ELSE LET s1 == moveLink(s, vm, h)
             s2 == moveTo(s1, vm, h)
         IN  send_msg_to_controller(s2, "migrated", vm)

\* A variant of stopVM that leaves the VM's link where it is.
stopVM_noRemove(s, vm) ==
    IF s.exc # NoExc THEN s
    ELSE IF vm \notin s.VMs \/ ~is_running(s, vm)
         THEN Raise(s, "AssertionError")
    ELSE send_msg_to_controller(vm_stop(s, vm), "destroyed", vm)

stopVM(s, vm) ==
    IF s.exc # NoExc THEN s
    ELSE IF vm \notin s.VMs \/ ~is_running(s, vm)
         THEN Raise(s, "AssertionError")
    ELSE LET s1 == vm_stop(s, vm)
             s2 == removeLink(s1, vm)
         IN  send_msg_to_controller(s2, "destroyed", vm)

deleteVM(s, vm) ==
    IF s.exc # NoExc THEN s
    ELSE IF vm \notin s.VMs THEN Raise(s, "AssertionError")
    ELSE LET s1 == IF is_running(s, vm) THEN stopVM(s, vm) ELSE s
             s2 == stopVM(s1, vm)
         IN  IF s2.exc # NoExc THEN s2
             ELSE [s2 EXCEPT !.VMs = @ \ {vm},
                             !.nameToComp = @ \ {vm},
                             !.link[vm] = NoNode]   \* vm.node.terminate()

pauseVM(s, vm) ==
    IF s.exc # NoExc THEN s
    ELSE IF vm \notin s.VMs \/ ~is_running(s, vm)
         THEN Raise(s, "AssertionError")
         ELSE not_implemented(s)

resumeVM(s, vm) ==
    IF s.exc # NoExc THEN s
    ELSE IF vm \notin s.VMs \/ ~is_running(s, vm)
         THEN Raise(s, "AssertionError")
         ELSE not_implemented(s)

\* limit = 0 stands for vm_dist_limit=None.
changeVMDistributionMode(s, mode, limit) ==
    IF s.exc # NoExc THEN s
    ELSE IF mode \notin possible_modes THEN Raise(s, "AssertionError")
    ELSE LET s1 == [s EXCEPT !.vm_dist_mode = mode]
         IN  IF mode = "packed" /\ limit # 0
             THEN IF limit > 0 THEN [s1 EXCEPT !.vm_dist_limit = limit]
                  ELSE Raise(s1, "AssertionError")
             ELSE s1

enableHV(s, h) ==
    IF s.exc # NoExc THEN s
    ELSE IF h \notin HVSet(s) \/ is_enabled(s, h)
         THEN Raise(s, "AssertionError")
         ELSE not_implemented(hv_enable(s, h))

disableHV(s, h) ==
    IF s.exc # NoExc THEN s
    ELSE IF h \notin HVSet(s) \/ ~is_enabled(s, h)
         THEN Raise(s, "AssertionError")
         ELSE not_implemented(hv_disable(s, h))

\* killHV: the assertions, and then 'NOT IMPLEMENTED YET'.
killHV(s, h) ==
    IF s.exc # NoExc THEN s
    ELSE IF h \notin HVSet(s) \/ ~is_enabled(s, h)
         THEN Raise(s, "AssertionError")
         ELSE not_implemented(s)

\* --------------------------------------------------------------- CMSAPI
\* 'name in self.net': the names of the components in the VM and HV lists.
InNet(s, name) == name \in s.VMs \cup HVSet(s)

\* _get_vm and _check_vm: the exception they raise, NoExc for none.
\* exp_running and exp_paused are "True", "False" or "None" (does not matter).
Unexpected(exp, val) == exp # "None" /\ (exp = "True") # val

check_vm(s, vm, exp_running, exp_paused) ==
    IF ~InNet(s, vm) THEN "CMSVMNameError"
    ELSE IF Unexpected(exp_running, is_running(s, vm))
         THEN "CMSVMRunningStateError"
    ELSE IF Unexpected(exp_paused, is_paused(s, vm))
         THEN "CMSVMPausedStateError"
    ELSE NoExc

\* _get_hv and _check_hv.
check_hv(s, h, exp_enabled) ==
    IF ~InNet(s, h) THEN "CMSHypervisorNameError"
    ELSE IF Unexpected(exp_enabled, is_enabled(s, h))
         THEN "CMSHypervisorEnabledStateError"
    ELSE NoExc

\* rsvd_name_pattern: ^([scdf]|hv|switch|controller|dummy|fabric)(\d+)?$,
\* with the digit strings tried.
DigitStrings == {"", "1", "12"}

RsvdPrefixes ==
    {"s", "c", "d", "f", "hv", "switch", "controller", "dummy", "fabric"}

rsvd_name_pattern(name) ==
    \E p \in RsvdPrefixes, d \in DigitStrings : name = p \o d

get_special_vars == {"net", "VMs", "HVs"}

get_method_names ==
    {"createVM", "cloneVM", "launchVM", "migrateVM", "pauseVM", "resumeVM",
     "stopVM", "deleteVM", "printVMDistributionMode",
     "changeVMDistributionMode", "changeCMSMsgLevel", "runMininet",
     "evictVMsFromHV", "invictVMsToHV", "enableHV", "disableHV", "killHV",
     "xterm", "gterm", "x11", "isHVFull"}

get_method_aliases ==
    {"create", "addVM", "add", "clone", "copyVM", "copy", "cp", "launch",
     "startVM", "start", "migrate", "moveVM", "move", "mv", "pause", "resume",
     "unpauseVM", "unpause", "stop", "delete", "removeVM", "remove", "rm",
     "mode_info", "mode", "level", "evict", "invict", "enable", "disable",
     "kill", "crashHV", "crash"}

\* _check_vm_name_available: the exception it raises, NoExc for none.
check_vm_name_available(s, name) ==
    IF name \in s.nameToComp \cup HVSet(s) \cup {Dummy}    \* name in self.net.mn
    THEN "CMSVMNameOccupiedError"
    ELSE IF rsvd_name_pattern(name) THEN "CMSNameReservedForOtherTypeError"
    ELSE IF name \in get_special_vars THEN "CMSNameReservedForSpecialVarError"
    ELSE IF name \in get_method_names \cup get_method_aliases
         THEN "CMSNameReservedForMethodError"
    ELSE NoExc

api_createVM(s, name) ==
    IF check_vm_name_available(s, name) # NoExc
    THEN Raise(s, check_vm_name_available(s, name))
    ELSE createVM(s, name)

\* After net.cloneVM the wrapper stores the clone under vm_name, a name it
\* never binds.
api_cloneVM(s, old_vm, new_vm_name) ==
    IF check_vm(s, old_vm, "None", "None") # NoExc
    THEN Raise(s, check_vm(s, old_vm, "None", "None"))
    ELSE IF new_vm_name # None
            /\ check_vm_name_available(s, new_vm_name) # NoExc
    THEN Raise(s, check_vm_name_available(s, new_vm_name))
    ELSE LET s1 == cloneVM(s, old_vm, new_vm_name)
         IN  IF s1.exc # NoExc THEN s1 ELSE Raise(s1, "NameError")

api_launchVM(s, vm, h, rnd) ==
    IF check_vm(s, vm, "False", "None") # NoExc
    THEN Raise(s, check_vm(s, vm, "False", "None"))
    ELSE IF h # None /\ check_hv(s, h, "True") # NoExc
    THEN Raise(s, check_hv(s, h, "True"))
    ELSE launchVM(s, vm, h, rnd)

api_migrateVM(s, vm, h) ==
    IF check_vm(s, vm, "True", "None") # NoExc
    THEN Raise(s, check_vm(s, vm, "True", "None"))
    ELSE IF h # None /\ check_hv(s, h, "True") # NoExc
    THEN Raise(s, check_hv(s, h, "True"))
    ELSE migrateVM(s, vm, h)

api_pauseVM(s, vm) ==
    IF check_vm(s, vm, "None", "False") # NoExc
    THEN Raise(s, check_vm(s, vm, "None", "False"))
    ELSE pauseVM(s, vm)

api_resumeVM(s, vm) ==
    IF check_vm(s, vm, "None", "True") # NoExc
    THEN Raise(s, check_vm(s, vm, "None", "True"))
    ELSE resumeVM(s, vm)

api_stopVM(s, vm) ==
    IF check_vm(s, vm, "True", "None") # NoExc
    THEN Raise(s, check_vm(s, vm, "True", "None"))
    ELSE stopVM(s, vm)

api_deleteVM(s, vm) ==
    IF check_vm(s, vm, "None", "None") # NoExc
    THEN Raise(s, check_vm(s, vm, "None", "None"))
    ELSE deleteVM(s, vm)

\* The vm_dist_limit of a call that gives none.
NoLimit == -1

\* What CMSnet.changeVMDistributionMode gets for its vm_dist_limit from
\* CMSAPI and CMSCLI: the dictionary vm_dist_args. An empty one is false
\* (0 below); one with an entry is true and, in Python 2, greater than any
\* integer, which is how it passes 'assert vm_dist_limit > 0' and how
\* isHVFull compares it once it is stored as the limit.
DictAsLimit == 99

\* A variant of CMSAPI.changeVMDistributionMode without the test of the mode
\* a limit comes with.
api_changeVMDistributionMode_anyMode(s, mode, limit) ==
    IF mode \notin possible_modes
    THEN Raise(s, "CMSInvalidChoiceValueError")
    ELSE IF limit = NoLimit THEN changeVMDistributionMode(s, mode, 0)
    ELSE IF limit <= 0 THEN Raise(s, "CMSNonpositiveValueError")
    ELSE changeVMDistributionMode(s, mode, DictAsLimit)

\* CMSAPI.changeVMDistributionMode(vm_dist_mode, vm_dist_limit).
api_changeVMDistributionMode(s, mode, limit) ==
    IF mode \notin possible_modes
    THEN Raise(s, "CMSInvalidChoiceValueError")
    ELSE IF limit = NoLimit THEN changeVMDistributionMode(s, mode, 0)
    ELSE IF limit <= 0 THEN Raise(s, "CMSNonpositiveValueError")
    ELSE IF mode # "packed" THEN Raise(s, "CMSInvalidParameterValueError")
    ELSE changeVMDistributionMode(s, mode, DictAsLimit)

\* The words an operator may type after 'mode <name>', and the integers
\* among them (checkInt, int).
ModeWords == {"0", "2", "h1", "hx"}

IntOf == ("0" :> 0) @@ ("2" :> 2)

\* CMSCLI.do_mode for 'mode <mode> <args...>': an error is printed and the
\* command returns, or CMSnet.changeVMDistributionMode is called with
\* vm_dist_args (None with no argument).
do_mode(s, mode, args) ==
    IF mode \notin possible_modes THEN Raise(s, "error")
    ELSE IF Len(args) = 0 THEN changeVMDistributionMode(s, mode, 0)
    ELSE IF mode = "packed"
    THEN IF Len(args) > 1 THEN Raise(s, "error")
         ELSE IF args[1] \notin DOMAIN IntOf THEN Raise(s, "error")
         ELSE IF IntOf[args[1]] <= 0 THEN Raise(s, "error")
         ELSE changeVMDistributionMode(s, mode, DictAsLimit)
    ELSE IF mode \in {"same", "different"}
    THEN IF Len(args) > 1 THEN Raise(s, "error")
         ELSE IF args[1] \notin s.nameToComp \/ args[1] \notin HVSet(s)
         THEN Raise(s, "error")
         ELSE changeVMDistributionMode(s, mode, DictAsLimit)
    ELSE Raise(s, "error")                 \* 'invalid number of args'

api_enableHV(s, h) ==
    IF check_hv(s, h, "False") # NoExc THEN Raise(s, check_hv(s, h, "False"))
    ELSE enableHV(s, h)

api_disableHV(s, h) ==
    IF check_hv(s, h, "True") # NoExc THEN Raise(s, check_hv(s, h, "True"))
    ELSE disableHV(s, h)

api_killHV(s, h) ==
    IF check_hv(s, h, "True") # NoExc THEN Raise(s, check_hv(s, h, "True"))
    ELSE killHV(s, h)

\* ------------------------------------------------------ the state machine
\* What a receiver that replays the messages in order holds after msgs:
\* 'instantiated' and 'migrated' set the host's hypervisor, 'destroyed'
\* removes the host.
RECURSIVE Replay(_, _)
Replay(map, msgs) ==
    IF msgs = << >> THEN map
    ELSE LET m == Head(msgs)
         IN  Replay([map EXCEPT ![m.host] =
                        IF m.cmd = "destroyed" THEN None ELSE m.new_hv],
                    Tail(msgs))

\* The step of one operation: the state its handler leaves and what it sent.
\* An operation that raised leaves what it had written before the raise.
Apply(r) ==
    /\ HVs' = r.HVs
    /\ VMs' = r.VMs
    /\ nameToComp' = r.nameToComp
    /\ hv' = r.hv
    /\ paused' = r.paused
    /\ link' = r.link
    /\ nameToVMs' = r.nameToVMs
    /\ enabled' = r.enabled
    /\ hv_limit' = r.hv_limit
    /\ vm_dist_mode' = r.vm_dist_mode
    /\ vm_dist_limit' = r.vm_dist_limit
    /\ last_HV' = r.last_HV
    /\ controller_socket' = r.controller_socket
    /\ vm_script' = r.vm_script
    /\ vm_script_params' = r.vm_script_params
    /\ tenant_id' = r.tenant_id
    /\ config' = r.config
    /\ sent' = r.sent
    /\ replayed' = Replay(replayed, r.sent)
    /\ UNCHANGED <<fabric, cycle, comps>>

\* After CMSnet.start() in a folder with no saved VM: the hypervisors
\* collected, no VM, the controller connected or not, each hypervisor's own
\* limit as its saved configuration has it.
InitNet ==
    /\ HVs \in HVLists
    /\ VMs = {}
    /\ nameToComp = {HVs[i] : i \in 1..Len(HVs)}
    /\ hv = [v \in VMNames |-> None]
    /\ paused = [v \in VMNames |-> FALSE]
    /\ link = [v \in VMNames |-> NoNode]
    /\ nameToVMs = [h \in HVNames |-> {}]
    /\ enabled = [h \in HVNames |-> TRUE]
    /\ hv_limit \in [HVNames -> 0..MaxHVLimit]
    /\ \A h \in HVNames : h \notin OwnLimitHVs \cap nameToComp => hv_limit[h] = 0
    /\ vm_dist_mode = "random"
    /\ vm_dist_limit \in 1..MaxLimit
    /\ last_HV = None
    /\ controller_socket \in BOOLEAN
    /\ vm_script = [v \in VMNames |-> None]
    /\ vm_script_params = [v \in VMNames |-> {}]
    /\ tenant_id = [v \in VMNames |-> DefaultTenant]
    /\ config = [v \in VMNames |-> NoFile]
    /\ sent = << >>
    /\ replayed = [v \in VMNames |-> None]

\* _createHostAtDummy for the two hosts: each has its link to the dummy, on
\* the dummy's next port; caps are the nodes with attach() and detach().
FabricStart(caps) ==
    [node |-> [h \in FabHosts |-> Dummy],
     name |-> [h \in FabHosts |-> IF h = "v1" THEN "dummy-eth0"
                                  ELSE "dummy-eth1"],
     intfs |-> [n \in FabNodes |->
                  IF n = Dummy THEN (0 :> "v1") @@ (1 :> "v2") ELSE << >>],
     ports |-> [n \in FabNodes |->
                  IF n = Dummy THEN ("v1" :> 0) @@ ("v2" :> 1) ELSE << >>],
     nameToIntf |-> [n \in FabNodes |->
                  IF n = Dummy
                  THEN ("dummy-eth0" :> "v1") @@ ("dummy-eth1" :> "v2")
                  ELSE << >>],
     caps |-> caps,
     steps |-> << >>]

\* The VM objects an operator holds, and the names they are given.
VMObjs == {"o1", "o2"}
ObjNames == {"v1", "v2", "v3"}

\* No VM object has been made: no name, no key in CMSnet.nameToComp, in
\* Mininet's nameToNode or in a hypervisor's nameToVMs, no configuration file.
NoComps ==
    [VMs |-> {}, name |-> [o \in VMObjs |-> None],
     hv |-> [o \in VMObjs |-> None], nameToComp |-> << >>,
     nameToNode |-> {}, nameToVMs |-> [h \in HVNames |-> << >>],
     files |-> {}]

\* The VMs and the registered hypervisors of the network in cycle mode.
CycleVMs == {"v1", "v2", "v3"}
CycleHVs == <<"h1", "h2", "h3">>

\* No cycle is followed: the cycle is empty, the position 0, no VM runs and
\* no hypervisor has been picked.
NoCycle ==
    [hv_cycle |-> << >>, cycle_pos |-> 0, hv |-> [v \in CycleVMs |-> None],
     picks |-> << >>]

Init ==
    /\ InitNet
    /\ fabric = FabricStart(FabSwitches)
    /\ cycle = NoCycle
    /\ comps = NoComps

CreateVM == \E vm \in VMNames : Apply(api_createVM(St, vm))

CloneVM ==
    \E old \in VMNames, new \in VMNames :
        Apply(api_cloneVM(St, old, new))

LaunchVM ==
    \E vm \in VMNames, h \in HVNames \cup {None} :
        \E rnd \in (IF h = None THEN Draws(St) ELSE {None}) :
            Apply(api_launchVM(St, vm, h, rnd))

MigrateVM ==
    \E vm \in VMNames, h \in HVNames \cup {None} :
        Apply(api_migrateVM(St, vm, h))

PauseVM == \E vm \in VMNames : Apply(api_pauseVM(St, vm))

ResumeVM == \E vm \in VMNames : Apply(api_resumeVM(St, vm))

StopVM == \E vm \in VMNames : Apply(api_stopVM(St, vm))

DeleteVM == \E vm \in VMNames : Apply(api_deleteVM(St, vm))

\* The component's own methods, which the interpreter hands to the operator
\* with the component (CMSAPI.set_cms_commands): vm.pause() and vm.resume().
VMPause == \E vm \in VMs : Apply(vm_pause(St, vm))

VMResume == \E vm \in VMs : Apply(vm_resume(St, vm))

ChangeVMDistributionMode ==
    \E mode \in possible_modes :
      \E limit \in (IF mode = "packed" THEN 0..MaxLimit ELSE {0, 1}) :
        Apply(changeVMDistributionMode(St, mode, limit))

EnableHV == \E h \in HVNames : Apply(api_enableHV(St, h))

DisableHV == \E h \in HVNames : Apply(api_disableHV(St, h))

KillHV == \E h \in HVNames : Apply(api_killHV(St, h))

Next ==
    \/ CreateVM
    \/ CloneVM
    \/ LaunchVM
    \/ MigrateVM
    \/ PauseVM
    \/ ResumeVM
    \/ StopVM
    \/ DeleteVM
    \/ VMPause
    \/ VMResume
    \/ ChangeVMDistributionMode
    \/ EnableHV
    \/ DisableHV
    \/ KillHV

Spec == Init /\ [][Next]_vars

\* The same network started with two hypervisors that have no limit of
\* their own.
InitChannel ==
    /\ Init
    /\ HVs = <<"h1", "h2">>
    /\ hv_limit = [h \in HVNames |-> 0]

SpecChannel == InitChannel /\ [][Next]_vars

\* ------------------------------------------------- names and saved VMs
\* A second specification: one hypervisor, VM names that are the empty
\* string, a plain name and its '.cp' successors, and a configuration folder
\* that may hold files of saved VMs when the network starts.
NameUniverse == {"", "v1", "v1.cp", "v1.cp.cp"}

\* Names createVM is also called with: occupied or reserved ones.
OtherNames == {"h1", "dummy", "s1", "hv12", "net", "launchVM", "cp"}

\* A saved VM that was stopped, with script parameters and a tenant id of
\* its own; a saved VM that was running on h1 with the defaults.
SavedStopped ==
    [vm_script |-> None, vm_script_params |-> {<<"PORT", "80">>},
     tenant_id |-> 2, config_hv_name |-> None, config_is_paused |-> FALSE]

SavedRunning ==
    [vm_script |-> None, vm_script_params |-> {},
     tenant_id |-> DefaultTenant, config_hv_name |-> "h1",
     config_is_paused |-> FALSE]

SavedFiles == {NoFile, SavedStopped, SavedRunning}

\* The names the folder may hold a file of.
SavedNames == {"v1"}

\* CMSnet.__init__ and get_hypervisors with the folder's files cfg: no VM
\* yet, no controller connection yet.
Constructed(cfg) ==
    [HVs |-> <<"h1">>, VMs |-> {}, nameToComp |-> {"h1"},
     hv |-> [n \in NameUniverse |-> None],
     paused |-> [n \in NameUniverse |-> FALSE],
     link |-> [n \in NameUniverse |-> NoNode],
     nameToVMs |-> [h \in HVNames |-> {}],
     enabled |-> [h \in HVNames |-> TRUE],
     hv_limit |-> [h \in HVNames |-> 0],
     vm_dist_mode |-> "random", vm_dist_limit |-> MaxLimit,
     last_HV |-> None, controller_socket |-> FALSE,
     vm_script |-> [n \in NameUniverse |-> None],
     vm_script_params |-> [n \in NameUniverse |-> {}],
     tenant_id |-> [n \in NameUniverse |-> DefaultTenant],
     config |-> cfg, send_fails |-> FALSE, write_fails |-> FALSE,
     sent |-> << >>, exc |-> NoExc]

\* get_old_VMs: every saved VM is created again, and launched on the
\* hypervisor its file names if that hypervisor is there.
RECURSIVE get_old_VMs(_, _)
get_old_VMs(s, files) ==
    IF files = {} THEN s
    ELSE LET vm_name == CHOOSE n \in files : TRUE
             s1 == createVM(s, vm_name)
             h == s1.config[vm_name].config_hv_name
             s2 == IF h # None /\ h \in s1.nameToComp
                   THEN launchVM(s1, vm_name, h, None)
                   ELSE s1
         IN  get_old_VMs(s2, files \ {vm_name})

\* CMSnet.start: the saved VMs, then the controller connection.
start(cfg) ==
    LET s1 == get_old_VMs(Constructed(cfg),
                          {n \in NameUniverse : cfg[n] # NoFile})
    IN  [s1 EXCEPT !.controller_socket = TRUE, !.sent = << >>]

InitNames ==
    \E cfg \in [NameUniverse -> SavedFiles] :
        /\ \A n \in NameUniverse \ SavedNames : cfg[n] = NoFile
        /\ LET r == start(cfg)
           IN  /\ HVs = r.HVs
               /\ VMs = r.VMs
               /\ nameToComp = r.nameToComp
               /\ hv = r.hv
               /\ paused = r.paused
               /\ link = r.link
               /\ nameToVMs = r.nameToVMs
               /\ enabled = r.enabled
               /\ hv_limit = r.hv_limit
               /\ vm_dist_mode = r.vm_dist_mode
               /\ vm_dist_limit = r.vm_dist_limit
               /\ last_HV = r.last_HV
               /\ controller_socket = r.controller_socket
               /\ vm_script = r.vm_script
               /\ vm_script_params = r.vm_script_params
               /\ tenant_id = r.tenant_id
               /\ config = r.config
               /\ sent = << >>
               /\ replayed = [n \in NameUniverse |-> None]
               /\ fabric = FabricStart(FabSwitches)
               /\ cycle = NoCycle
               /\ comps = NoComps

CreateNamed ==
    \E name \in NameUniverse \cup OtherNames : Apply(api_createVM(St, name))

\* A clone under a name of its own.
CloneNamed ==
    \E old \in NameUniverse, new \in NameUniverse :
        Apply(api_cloneVM(St, old, new))

\* A clone under the default name, while that name stays within the names
\* of the model.
CloneDefault ==
    \E old \in NameUniverse :
        /\ old \in VMs => default_clone_name(St, old) \in NameUniverse
        /\ Apply(api_cloneVM(St, old, None))

LaunchNamed ==
    \E vm \in NameUniverse : Apply(api_launchVM(St, vm, "h1", None))

StopNamed == \E vm \in NameUniverse : Apply(api_stopVM(St, vm))

DeleteNamed == \E vm \in NameUniverse : Apply(api_deleteVM(St, vm))

PauseNamed == \E vm \in VMs : Apply(vm_pause(St, vm))

NextNames ==
    \/ CreateNamed
    \/ CloneNamed
    \/ CloneDefault
    \/ LaunchNamed
    \/ StopNamed
    \/ DeleteNamed
    \/ PauseNamed

SpecNames == InitNames /\ [][NextNames]_vars

\* ------------------------------------------------------ fabric calls
\* A third specification: the rewiring calls on the tables of two hosts, the
\* dummy and two switches, each call with or without a failing fabric step.

\* The fabric handed to a call: no step made yet, no exception, the dummy
\* there, and the fabric step fail failing.
Fab(fail) ==
    [node |-> fabric.node, name |-> fabric.name, intfs |-> fabric.intfs,
     ports |-> fabric.ports, nameToIntf |-> fabric.nameToIntf,
     caps |-> fabric.caps, steps |-> << >>, fail |-> fail,
     dummy_exists |-> TRUE, exc |-> NoExc]

PortsWithin(r, max) ==
    \A n \in FabNodes : \A p \in Range(r.ports[n]) : p <= max

\* The step of one rewiring call: the tables it leaves and the steps it
\* made; a call that raised leaves what it had written before the raise.
ApplyFab(r) ==
    /\ PortsWithin(r, MaxPort)
    /\ fabric' = [node |-> r.node, name |-> r.name, intfs |-> r.intfs,
                  ports |-> r.ports, nameToIntf |-> r.nameToIntf,
                  caps |-> r.caps, steps |-> r.steps]
    /\ UNCHANGED netvars
    /\ UNCHANGED <<cycle, comps>>

InitFabric ==
    /\ InitNet
    /\ HVs = <<"h1", "h2">>
    /\ hv_limit = [h \in HVNames |-> 0]
    /\ vm_dist_limit = 1
    /\ controller_socket
    /\ fabric \in {FabricStart(caps) : caps \in SUBSET FabSwitches}
    /\ cycle = NoCycle
    /\ comps = NoComps

MoveLink ==
    \E host \in FabHosts, node2 \in FabNodes, fail \in FailKinds :
        ApplyFab(fab_moveLink(Fab(fail), host, node2, None))

RemoveLink ==
    \E host \in FabHosts, fail \in FailKinds :
        ApplyFab(fab_removeLink(Fab(fail), host, TRUE))

SwapLink ==
    \E host1 \in FabHosts, fail \in FailKinds :
        \E host2 \in FabHosts \ {host1} :
            ApplyFab(fab_swapLink(Fab(fail), host1, host2))

NextFabric ==
    \/ MoveLink
    \/ RemoveLink
    \/ SwapLink

SpecFabric == InitFabric /\ [][NextFabric]_vars

\* ------------------------------------------------------------ properties
\* What an operation that ended in state r has sent: exactly one message of
\* the command about the VM when the controller is connected, none otherwise.
Notified(r, cmd, vm, h) ==
    r.sent = IF controller_socket
             THEN <<[cmd |-> cmd, host |-> vm, new_hv |-> h]>>
             ELSE << >>

WithinLimits(s) == \A h \in HVSet(s) : NumVMs(s, h) <= effective_limit(s, h)

PausedImpliesRunning ==
    \A vm \in VMNames : is_paused(St, vm) => is_running(St, vm)

\* A VM that was paused and then stopped: its flag is still set, it is not
\* running, and it does not report paused.
PausedImpliesRunningWitness ==
    \E vm \in VMs : paused[vm] /\ ~is_running(St, vm) /\ ~is_paused(St, vm)

\* C3: in every reachable state a disabled hypervisor hosts no VM.
DisabledHostsNone ==
    \A h \in HVSet(St) : ~enabled[h] => nameToVMs[h] = {}

\* C4: while the mode is packed, a successful launch or migrate (explicit or
\* automatically selected target) from a state in which every hypervisor is
\* within its effective limit leaves every hypervisor within its effective
\* limit.
PackedKeepsLimits ==
    (vm_dist_mode = "packed" /\ WithinLimits(St)) =>
        \A vm \in VMNames, h \in HVNames \cup {None} :
            /\ \A rnd \in (IF h = None THEN Draws(St) ELSE {None}) :
                   LET r == api_launchVM(St, vm, h, rnd)
                   IN  r.exc = NoExc => WithinLimits(r)
            /\ LET r == api_migrateVM(St, vm, h)
               IN  r.exc = NoExc => WithinLimits(r)

MigrateEffect ==
    \A vm \in VMNames, h2 \in HVNames :
        LET r == api_migrateVM(St, vm, h2)
            h1 == hv[vm]
        IN  (/\ is_running(St, vm) /\ ~is_paused(St, vm)
             /\ h1 # h2 /\ r.exc = NoExc) =>
                /\ link[vm] = h1
                /\ r.link[vm] = h2
                /\ r.hv[vm] = h2
                /\ vm \notin r.nameToVMs[h1]
                /\ vm \in r.nameToVMs[h2]
                /\ Notified(r, "migrated", vm, h2)

\* The only VM there is was last launched on h1 and has just been migrated:
\* it runs, unpaused, on another hypervisor.
MigrateEffectWitness ==
    \E vm \in VMs, h2 \in HVNames :
        /\ VMs = {vm}
        /\ last_HV # None /\ last_HV # h2
        /\ sent = <<[cmd |-> "migrated", host |-> vm, new_hv |-> h2]>>
        /\ hv[vm] = h2 /\ link[vm] = h2 /\ ~paused[vm]
        /\ nameToVMs[last_HV] = {} /\ nameToVMs[h2] = {vm}

\* C7: stop on a running VM, paused or not, succeeds and leaves it inactive:
\* no running hypervisor, the paused flag cleared (a paused VM is resumed
\* first), the endpoint on the sink, the VM in no hosted set, and one
\* 'destroyed' message sent to the connected controller.
StopEffect ==
    \A vm \in VMs :
        is_running(St, vm) =>
            LET r == api_stopVM(St, vm)
            IN  /\ r.exc = NoExc
                /\ r.hv[vm] = None
                /\ ~r.paused[vm]
                /\ r.link[vm] = Dummy
                /\ \A g \in HVNames : vm \notin r.nameToVMs[g]
                /\ Notified(r, "destroyed", vm, None)

\* C8: delete of a registered VM succeeds whatever its state, and leaves the
\* VM absent from the VM list and from the name map, and not running.
DeleteEffect ==
    \A vm \in VMs :
        LET r == api_deleteVM(St, vm)
        IN  /\ r.exc = NoExc
            /\ vm \notin r.VMs
            /\ vm \notin r.nameToComp
            /\ ~is_running(r, vm)

\* C9: pause on a running, unpaused VM succeeds, moves the endpoint to the
\* sink, keeps the running hypervisor and the hosted sets, and leaves the VM
\* paused.
PauseEffect ==
    \A vm \in VMs :
        (is_running(St, vm) /\ ~is_paused(St, vm)) =>
            LET r == api_pauseVM(St, vm)
            IN  /\ r.exc = NoExc
                /\ r.link[vm] = Dummy
                /\ r.hv[vm] = hv[vm]
                /\ r.nameToVMs = nameToVMs
                /\ is_paused(r, vm)

\* C10: migrate of a paused VM to another enabled hypervisor h2 changes the
\* running hypervisor to h2 and leaves the endpoint on the sink; the resume
\* that follows attaches the endpoint to h2's node and leaves the VM running
\* and not paused.
PausedMigrateEffect ==
    \A vm \in VMs, h2 \in HVSet(St) :
        (is_paused(St, vm) /\ enabled[h2] /\ h2 # hv[vm]) =>
            LET r  == api_migrateVM(St, vm, h2)
                r2 == api_resumeVM([r EXCEPT !.sent = << >>], vm)
            IN  /\ r.exc = NoExc
                /\ r.hv[vm] = h2
                /\ r.link[vm] = Dummy
                /\ r2.exc = NoExc
                /\ r2.link[vm] = h2
                /\ is_running(r2, vm)
                /\ ~is_paused(r2, vm)

\* The network as a handler leaves it, without the messages and the exception.
Net(s) == [s EXCEPT !.sent = << >>, !.exc = NoExc]

\* The VM, hypervisor, topology and placement state a handler leaves, without
\* the side channel (connection, messages, configuration files).
Core(s) ==
    [HVs |-> s.HVs, VMs |-> s.VMs, nameToComp |-> s.nameToComp, hv |-> s.hv,
     paused |-> s.paused, link |-> s.link, nameToVMs |-> s.nameToVMs,
     enabled |-> s.enabled, hv_limit |-> s.hv_limit,
     vm_dist_mode |-> s.vm_dist_mode, vm_dist_limit |-> s.vm_dist_limit,
     last_HV |-> s.last_HV, vm_script |-> s.vm_script,
     vm_script_params |-> s.vm_script_params, tenant_id |-> s.tenant_id]

\* C11: migrate of a running VM with no target never raises; it either leaves
\* the network as it was (no candidate) or moves the VM to a hypervisor other
\* than its current one, and in random or sparse mode with another enabled
\* hypervisor registered it does move the VM.
MigrateAutoTarget ==
    \A vm \in VMs :
        is_running(St, vm) =>
            LET r == api_migrateVM(St, vm, None)
            IN  /\ r.exc = NoExc
                /\ (r.hv[vm] = hv[vm]) => (Net(r) = St)
                /\ (/\ vm_dist_mode \in {"random", "sparse"}
                    /\ \E g \in HVSet(St) \ {hv[vm]} : enabled[g])
                       => r.hv[vm] \in HVSet(St) \ {hv[vm]}

\* Automatic placement has no hypervisor to offer in state s.
NoCandidate(s) ==
    \/ HVSet(s) = {}
    \/ s.vm_dist_mode = "packed" /\ \A g \in HVSet(s) : isHVFull(s, g)
    \/ s.vm_dist_mode = "same" /\ s.last_HV = None
    \/ s.vm_dist_mode = "different"
           /\ (s.last_HV = None \/ HVSet(s) \ {s.last_HV} = {})

\* C12: when automatic placement has no hypervisor to offer, a launch of an
\* inactive VM with no target returns normally, leaves every VM, hosted set,
\* link and the last hypervisor as they were, and sends nothing.
LaunchNoCandidate ==
    NoCandidate(St) =>
        \A vm \in VMs : \A rnd \in Draws(St) :
            ~is_running(St, vm) =>
                LET r == api_launchVM(St, vm, None, rnd)
                IN  /\ r.exc = NoExc
                    /\ r.sent = << >>
                    /\ Net(r) = St

\* The typed errors about a VM's state (cms_exc).
VMStateErrors == {"CMSVMRunningStateError", "CMSVMPausedStateError"}

\* The call that ended in r was rejected with a typed state error and left
\* the network as it was.
Rejected(r) == r.exc \in VMStateErrors /\ Net(r) = St

\* C13: a lifecycle operation called in the wrong VM state (launch on a
\* running VM; migrate, pause or stop on an inactive VM; pause on a paused
\* VM; resume on a VM that is not paused) is rejected with a typed state
\* error and changes nothing.
WrongStateRejected ==
    \A vm \in VMs :
        /\ is_running(St, vm) =>
               \A h \in HVNames \cup {None} :
                   \A rnd \in (IF h = None THEN Draws(St) ELSE {None}) :
                       Rejected(api_launchVM(St, vm, h, rnd))
        /\ ~is_running(St, vm) =>
               /\ \A h \in HVNames \cup {None} : Rejected(api_migrateVM(St, vm, h))
               /\ Rejected(api_pauseVM(St, vm))
               /\ Rejected(api_stopVM(St, vm))
        /\ is_paused(St, vm) => Rejected(api_pauseVM(St, vm))
        /\ ~is_paused(St, vm) => Rejected(api_resumeVM(St, vm))

\* C14: every message of launch, migrate and stop is built after the
\* operation's link move and hypervisor update: its new_hv is the hypervisor
\* the VM has when the operation ends (None for 'destroyed'), and the VM's
\* endpoint is then on that hypervisor's node (on the sink for 'destroyed').
NotifiedAfterUpdate ==
    \A i \in 1..Len(sent) :
        LET m == sent[i]
        IN  /\ m.cmd \in {"instantiated", "migrated", "destroyed"}
            /\ m.new_hv = hv[m.host]
            /\ (m.cmd = "destroyed") <=> (m.new_hv = None)
            /\ link[m.host] = IF m.cmd = "destroyed" THEN Dummy ELSE m.new_hv

\* A stop has just told the controller that the VM, stopped while paused,
\* has no hypervisor; another VM still runs.
NotifiedAfterUpdateWitness ==
    \E vm \in VMs, w \in VMs :
        /\ sent = <<[cmd |-> "destroyed", host |-> vm, new_hv |-> None]>>
        /\ hv[vm] = None /\ paused[vm]
        /\ hv[w] # None /\ hv[w] # last_HV

\* C15: with the controller connected, in every reachable state the map
\* obtained by replaying all messages sent so far gives every registered VM
\* its actual running hypervisor (none for a VM that is not running).
ReplayMatchesPlacement ==
    controller_socket => \A vm \in VMs : replayed[vm] = hv[vm]

\* The messages so far have placed one VM and removed another again, whose
\* last message is the 'destroyed' just sent.
ReplayMatchesPlacementWitness ==
    /\ controller_socket
    /\ \E vm \in VMs, w \in VMs :
           /\ replayed[vm] # None /\ replayed[vm] = hv[vm]
           /\ replayed[w] = None
           /\ sent = <<[cmd |-> "destroyed", host |-> w, new_hv |-> None]>>
           /\ replayed[vm] # last_HV

\* The network in state St with the side channel as ch has it: the controller
\* socket connected or not, its send failing or not, the writes of the
\* configuration files failing or not.
WithChannel(ch) ==
    [St EXCEPT !.controller_socket = ch.socket,
               !.send_fails = ch.send_fails,
               !.write_fails = ch.write_fails]

Working == [socket |-> TRUE, send_fails |-> FALSE, write_fails |-> FALSE]

BrokenChannels ==
    {[socket |-> FALSE, send_fails |-> FALSE, write_fails |-> FALSE],
     [socket |-> TRUE, send_fails |-> TRUE, write_fails |-> FALSE],
     [socket |-> TRUE, send_fails |-> FALSE, write_fails |-> TRUE]}

\* The lifecycle calls an operator can make, and the call c made in state s
\* with the random draw rnd.
LifecycleCalls ==
    [op : {"createVM", "pauseVM", "resumeVM", "stopVM", "deleteVM",
           "vm.pause", "vm.resume"}, vm : VMNames, arg : {None}]
    \cup [op : {"cloneVM"}, vm : VMNames, arg : VMNames]
    \cup [op : {"launchVM", "migrateVM"}, vm : VMNames,
          arg : HVNames \cup {None}]

Run(s, c, rnd) ==
    CASE c.op = "createVM"  -> api_createVM(s, c.vm)
      [] c.op = "cloneVM"   -> api_cloneVM(s, c.vm, c.arg)
      [] c.op = "launchVM"  -> api_launchVM(s, c.vm, c.arg, rnd)
      [] c.op = "migrateVM" -> api_migrateVM(s, c.vm, c.arg)
      [] c.op = "pauseVM"   -> api_pauseVM(s, c.vm)
      [] c.op = "resumeVM"  -> api_resumeVM(s, c.vm)
      [] c.op = "stopVM"    -> api_stopVM(s, c.vm)
      [] c.op = "deleteVM"  -> api_deleteVM(s, c.vm)
      [] c.op = "vm.pause"  -> IF c.vm \in s.VMs THEN vm_pause(s, c.vm) ELSE s
      [] c.op = "vm.resume" -> IF c.vm \in s.VMs THEN vm_resume(s, c.vm) ELSE s

\* C16: in every reachable state, every lifecycle call ends the same way
\* (same exception or none, same VM, hypervisor, topology and placement
\* state) whether the side channel works or the controller is not connected,
\* the send fails, or the configuration write fails; a message that is not
\* delivered is not sent again.
SideChannelHarmless ==
    \A c \in LifecycleCalls :
        \A rnd \in (IF c.op = "launchVM" /\ c.arg = None
                    THEN Draws(St) ELSE {None}) :
            LET a == Run(WithChannel(Working), c, rnd)
            IN  \A ch \in BrokenChannels :
                    LET b == Run(WithChannel(ch), c, rnd)
                    IN  /\ b.exc = a.exc
                        /\ Core(b) = Core(a)
                        /\ (~ch.socket \/ ch.send_fails) => b.sent = << >>
                        /\ ~ch.write_fails => b.config = a.config

\* A launch has happened with no controller connected: the VM runs on the
\* hypervisor last chosen, its saved configuration names it, nothing was sent.
SideChannelHarmlessWitness ==
    /\ ~controller_socket
    /\ \E vm \in VMs :
           /\ hv[vm] # None /\ link[vm] = hv[vm] /\ last_HV = hv[vm]
           /\ config[vm] # NoFile /\ config[vm].config_hv_name = hv[vm]
           /\ sent = << >>

\* ------------------------------------------------------ create and clone
\* A name create may take by the specification: not empty, not the name of a
\* component or of a node of the fabric, not of the reserved pattern.
NameAllowed(s, name) ==
    /\ name # ""
    /\ name \notin s.nameToComp \cup HVSet(s) \cup {Dummy}
    /\ ~rsvd_name_pattern(name)

\* C17: create registers the new VM, Inactive with its endpoint on the sink,
\* only under a name that is not empty, not in use and not reserved; with any
\* other name it is rejected and the registry and the fabric stay as they
\* were.
CreateContract ==
    \A name \in NameUniverse \cup OtherNames :
        LET r == api_createVM(St, name)
        IN  /\ ~NameAllowed(St, name) => r.exc # NoExc /\ Net(r) = St
            /\ r.exc = NoExc =>
                   /\ r.VMs = VMs \cup {name}
                   /\ r.nameToComp = nameToComp \cup {name}
                   /\ ~is_running(r, name)
                   /\ r.link[name] = Dummy

\* The same contract without the empty name.
CreateContractNonEmpty ==
    \A name \in (NameUniverse \cup OtherNames) \ {""} :
        LET r == api_createVM(St, name)
        IN  /\ ~NameAllowed(St, name) => r.exc # NoExc /\ Net(r) = St
            /\ r.exc = NoExc =>
                   /\ r.VMs = VMs \cup {name}
                   /\ r.nameToComp = nameToComp \cup {name}
                   /\ ~is_running(r, name)
                   /\ r.link[name] = Dummy

\* The longest run of '.cp' suffixes looked at.
MaxCp == 5

\* name followed by k suffixes '.cp'.
RECURSIVE Suffixed(_, _)
Suffixed(name, k) == IF k = 0 THEN name ELSE Suffixed(name, k - 1) \o ".cp"

CloneMade(r, old, new) ==
    /\ r.VMs = VMs \cup {new}
    /\ r.nameToComp = nameToComp \cup {new}
    /\ r.vm_script[new] = vm_script[old]
    /\ r.vm_script_params[new] = vm_script_params[old]
    /\ r.tenant_id[new] = tenant_id[old]
    /\ ~is_running(r, new)
    /\ ~is_paused(r, new)
    /\ r.link[new] = Dummy
    /\ r.hv[old] = hv[old]
    /\ r.paused[old] = paused[old]
    /\ r.link[old] = link[old]
    /\ r.nameToVMs = nameToVMs

\* C19: clone returns a new registered VM with the source's script, script
\* parameters and tenant id, Inactive with its endpoint on the sink even when
\* the source is Running or Paused, and the source's running state stays.
CloneContract ==
    \A old \in VMs, new \in NameUniverse :
        NameAllowed(St, new) =>
            LET r == api_cloneVM(St, old, new)
            IN  r.exc = NoExc /\ CloneMade(r, old, new)

\* What CMSnet.cloneVM, under the wrapper, does: the clone is made as C19
\* describes it.
CloneNetEffect ==
    \A old \in VMs, new \in NameUniverse :
        NameAllowed(St, new) =>
            LET r == cloneVM(St, old, new)
            IN  r.exc = NoExc /\ CloneMade(r, old, new)

\* What the wrapper does: the clone is made, and NameError is raised.
CloneRaises ==
    \A old \in VMs, new \in NameUniverse :
        NameAllowed(St, new) =>
            LET r == api_cloneVM(St, old, new)
            IN  r.exc = "NameError" /\ CloneMade(r, old, new)

\* The state the next call finds after a call that ended in r, raised or not.
After(r) == Net(r)

Capabilities(steps) ==
    {i \in 1..Len(steps) : steps[i].ev \in {"detach", "attach"}}

\* C21: removeLink for a host whose link is on the dummy already changes no
\* port table, no name table and no interface's node or name, calls no
\* detach and no attach, and raises nothing, whatever fabric step would fail.
RemoveOnSinkNoOp ==
    \A host \in FabHosts, fail \in FailKinds :
        fabric.node[host] = Dummy =>
            LET r == fab_removeLink(Fab(fail), host, TRUE)
            IN  /\ r.exc = NoExc
                /\ Tables(r) = Tables(Fab(fail))
                /\ Capabilities(r.steps) = {}

\* The last call was a removeLink that found the host on the dummy, the other
\* host being on a switch.
RemoveOnSinkNoOpWitness ==
    /\ Len(fabric.steps) = 1
    /\ fabric.steps[1].ev = "removed_already"
    /\ fabric.node[fabric.steps[1].host] = Dummy
    /\ \E other \in FabHosts : fabric.node[other] \in FabSwitches

\* What the fabric steps of a call are, in order.
Events(steps) == [i \in 1..Len(steps) |-> steps[i].ev]

\* host is in the node's three tables as the tables t have it.
Holds(t, node, host) ==
    /\ t.node[host] = node
    /\ host \in DOMAIN t.ports[node]
    /\ t.ports[node][host] \in DOMAIN t.intfs[node]
    /\ t.intfs[node][t.ports[node][host]] = host
    /\ t.name[host] \in DOMAIN t.nameToIntf[node]
    /\ t.nameToIntf[node][t.name[host]] = host

\* C22: within _moveLink the node the link leaves has its detach() called,
\* when it has one, while its tables are still as the call found them; the
\* node the link enters has its attach() called, when it has one, as the last
\* step, with the link in its tables under the new port and name; a node
\* without the capability, as the dummy is, is asked neither.
DetachFirstAttachLast ==
    /\ \A i \in Capabilities(fabric.steps) :
           fabric.steps[i].node \in fabric.caps \ {Dummy}
    /\ \A host \in FabHosts, node2 \in FabNodes :
           LET f == Fab("none")
               from == fabric.node[host]
               r == fab_moveLink(f, host, node2, None)
               n == Len(r.steps)
           IN  (r.exc = NoExc /\ from # node2) =>
                   /\ Events(r.steps) =
                          (IF from \in f.caps THEN <<"detach">> ELSE << >>)
                          \o <<"removed", "inserted", "moveIntf">>
                          \o (IF node2 \in f.caps THEN <<"attach">> ELSE << >>)
                   /\ from \in f.caps =>
                          /\ r.steps[1].node = from
                          /\ r.steps[1].tables = Tables(f)
                   /\ node2 \in f.caps =>
                          /\ r.steps[n].node = node2
                          /\ r.steps[n].tables = Tables(r)
                          /\ Holds(r.steps[n].tables, node2, host)
                   /\ ~Holds(Tables(r), from, host)

\* The last call moved a link from one switch to the other, both with the
\* capability: detach, the exchange of the tables, the move of the
\* interface, attach.
DetachFirstAttachLastWitness ==
    /\ Events(fabric.steps) =
           <<"detach", "removed", "inserted", "moveIntf", "attach">>
    /\ fabric.steps[1].node \in FabSwitches
    /\ fabric.steps[5].node \in FabSwitches \ {fabric.steps[1].node}
    /\ Holds(fabric.steps[1].tables, fabric.steps[1].node, fabric.steps[1].host)

\* No node holds two links under one port in the tables t.
OnePerPort(t) ==
    \A n \in FabNodes :
        \A a \in DOMAIN t.ports[n], b \in DOMAIN t.ports[n] :
            a # b => t.ports[n][a] # t.ports[n][b]

\* C23: _swapLink ends with the link of the first host on the node that held
\* the second's and the link of the second on the node that held the
\* first's, and at no step of it does a node hold two links under one port.
SwapExchanges ==
    \A host1 \in FabHosts, host2 \in FabHosts :
        host1 # host2 =>
            LET r == fab_swapLink(Fab("none"), host1, host2)
            IN  /\ r.exc = NoExc
                /\ r.node[host1] = fabric.node[host2]
                /\ r.node[host2] = fabric.node[host1]
                /\ OnePerPort(Tables(r))
                /\ \A i \in 1..Len(r.steps) : OnePerPort(r.steps[i].tables)

\* What holds of every _swapLink: no node holds two links under one port at
\* any step, and a swap that raises nothing has exchanged the nodes.
SwapOnePerPort ==
    \A host1 \in FabHosts, host2 \in FabHosts, fail \in FailKinds :
        host1 # host2 =>
            LET r == fab_swapLink(Fab(fail), host1, host2)
            IN  /\ OnePerPort(Tables(r))
                /\ \A i \in 1..Len(r.steps) : OnePerPort(r.steps[i].tables)
                /\ r.exc = NoExc =>
                       /\ r.node[host1] = fabric.node[host2]
                       /\ r.node[host2] = fabric.node[host1]

FabricErrors == {"DetachError", "MoveIntfError", "AttachError"}

\* Whether the fabric step that is set to fail is one _moveLink(host, node2)
\* gets to: it moves the link to another node, and the node concerned has the
\* capability.
FailureMet(fail, host, node2) ==
    /\ host \in DOMAIN fabric.ports[fabric.node[host]]
    /\ fabric.node[host] # node2
    /\ fabric.name[host] \in DOMAIN fabric.nameToIntf[fabric.node[host]]
    /\ fail = "detach" => fabric.node[host] \in fabric.caps
    /\ fail = "attach" => node2 \in fabric.caps
    /\ fail # "none"

\* C24: when a fabric step of _moveLink fails (the detach, the move of the
\* interface, the attach), the error comes out of the call and the tables
\* are those the call found: the link is still on its node under its old
\* port and name.
MoveFailureKeepsTables ==
    \A host \in FabHosts, node2 \in FabNodes, fail \in FailKinds :
        FailureMet(fail, host, node2) =>
            LET r == fab_moveLink(Fab(fail), host, node2, None)
            IN  /\ r.exc \in FabricErrors
                /\ Tables(r) = Tables(fabric)

\* What holds of a failing fabric step: its error comes out of the call, a
\* failing detach leaves the tables alone, and a failing move of the
\* interface or attach leaves the link entered in the tables of node2.
MoveFailureSurfaces ==
    \A host \in FabHosts, node2 \in FabNodes, fail \in FailKinds :
        FailureMet(fail, host, node2) =>
            LET r == fab_moveLink(Fab(fail), host, node2, None)
            IN  /\ r.exc \in FabricErrors
                /\ fail = "detach" => Tables(r) = Tables(fabric)
                /\ fail # "detach" =>
                       /\ r.node[host] = node2
                       /\ host \in DOMAIN r.ports[node2]
                       /\ host \notin DOMAIN r.ports[fabric.node[host]]

\* The tables of a network whose dummy node was never added (CMSnet.start
\* adds it).
FabNoDummy == [Fab("none") EXCEPT !.dummy_exists = FALSE]

NewHost == "v3"

\* C25: with no dummy node, _createHostAtDummy and _removeLink (and so
\* stopVM) end in an error raised to the caller and do not return normally.
SinkMissingRaises ==
    /\ fab_createHostAtDummy(FabNoDummy, NewHost).exc # NoExc
    /\ \A host \in FabHosts :
           fabric.node[host] # Dummy =>
               fab_removeLink(FabNoDummy, host, TRUE).exc # NoExc

\* What the code does with no dummy node: both calls log the error and
\* return with the tables as they found them and no fabric step made.
SinkMissingLogged ==
    /\ LET r == fab_createHostAtDummy(FabNoDummy, NewHost)
       IN  /\ r.exc = NoExc
           /\ Tables(r) = Tables(fabric)
           /\ Events(r.steps) = <<"error">>
    /\ \A host \in FabHosts, once \in BOOLEAN :
           LET r == fab_removeLink(FabNoDummy, host, once)
           IN  /\ r.exc = NoExc
               /\ Tables(r) = Tables(fabric)
               /\ Events(r.steps) = <<"error">>

\* ------------------------------------------------------------ placement
\* The number of VMs a hypervisor hosts, and the hypervisors under capacity:
\* those hosting fewer VMs than their own limit when they have one, than the
\* network's limit otherwise.
hosted_count(h) == Cardinality(nameToVMs[h])

UnderCapacity ==
    {h \in HVSet(St) :
        hosted_count(h) < (IF hv_limit[h] # 0 THEN hv_limit[h]
                           ELSE vm_dist_limit)}

\* The VMs a launch can start.
Inactive == {vm \in VMs : ~is_running(St, vm)}

PackedFullWitness ==
    /\ vm_dist_mode = "packed" /\ HVSet(St) # {}
    /\ UnderCapacity = {} /\ Inactive # {}

\* C27: in sparse mode the hypervisor automatic placement returns hosts no
\* more VMs than any other, those before it in self.HVs host more, and a
\* launch with no target that succeeds puts the VM on it.
SparsePlacement ==
    (vm_dist_mode = "sparse" /\ HVSet(St) # {}) =>
        LET pick == getNextDefaultHV(St, None)
        IN  /\ pick.exc = NoExc
            /\ \E i \in 1..Len(HVs) :
                   /\ pick.hv = HVs[i]
                   /\ \A j \in 1..Len(HVs) :
                          hosted_count(HVs[i]) <= hosted_count(HVs[j])
                   /\ \A j \in 1..(i - 1) :
                          hosted_count(HVs[j]) > hosted_count(HVs[i])
            /\ \A vm \in Inactive :
                   LET r == api_launchVM(St, vm, None, None)
                   IN  r.exc = NoExc => r.hv[vm] = pick.hv

\* Sparse mode with a tie: the two hypervisors
\* host the same number of VMs and the launch with no target lands on h1.
SparsePlacementWitness ==
    /\ vm_dist_mode = "sparse" /\ HVs = <<"h1", "h2">>
    /\ hosted_count("h1") = hosted_count("h2")
    /\ \E vm \in Inactive :
           api_launchVM(St, vm, None, None).hv[vm] = "h1"

\* Sparse mode with no tie: h1 hosts a VM, h2 none, the launch lands on h2.
SparseLeastWitness ==
    /\ vm_dist_mode = "sparse" /\ HVs = <<"h1", "h2">>
    /\ hosted_count("h1") = 1 /\ hosted_count("h2") = 0
    /\ \E vm \in Inactive :
           api_launchVM(St, vm, None, None).hv[vm] = "h2"

\* The call that asks automatic placement for a target for vm: a launch with
\* no target for an inactive VM, a migrate with no target for a running one.
AutoPlace(vm, rnd) ==
    IF is_running(St, vm) THEN api_migrateVM(St, vm, None)
    ELSE api_launchVM(St, vm, None, rnd)

\* C28: in same mode automatic placement for a VM gives the hypervisor of
\* the most recent successful launch; with none recorded, or with the VM on
\* that hypervisor already, the call changes nothing.
SamePlacement ==
    vm_dist_mode = "same" =>
        \A vm \in VMs :
            ~paused[vm] =>
                LET r == AutoPlace(vm, None)
                IN  IF last_HV = None \/ last_HV = hv[vm]
                    THEN Net(r) = St
                    ELSE enabled[last_HV] =>
                             r.exc = NoExc /\ r.hv[vm] = last_HV

\* What holds of same mode in a launch, the one call that asks
\* _getNextDefaultHV: the VM lands on the last hypervisor, and with none
\* recorded the launch returns having changed nothing.
SameLaunch ==
    (vm_dist_mode = "same" /\ HVSet(St) # {}) =>
        /\ getNextDefaultHV(St, None) = Chosen(last_HV)
        /\ \A vm \in Inactive :
               LET r == api_launchVM(St, vm, None, None)
               IN  IF last_HV = None
                   THEN r.exc = NoExc /\ Net(r) = St
                   ELSE enabled[last_HV] =>
                            r.exc = NoExc /\ r.hv[vm] = last_HV

\* last_HV changes only in a launch, to the hypervisor the VM was launched
\* on.
LastHVFromLaunch ==
    [][last_HV' # last_HV =>
          \E vm \in VMNames :
              hv[vm] = None /\ hv'[vm] = last_HV' /\ last_HV' # None]_vars

\* The hypervisors different mode may give an inactive VM, which is on no
\* hypervisor: all but the last one chosen.
Candidates == HVSet(St) \ {last_HV}

\* C29: in different mode automatic placement returns a hypervisor other
\* than the last one chosen and than the VM's own, and it returns none,
\* raising nothing and changing nothing, exactly when there is no such
\* hypervisor.
DifferentPlacement ==
    vm_dist_mode = "different" =>
        \A vm \in Inactive : \A rnd \in Draws(St) :
            LET pick == getNextDefaultHV(St, rnd)
                r == api_launchVM(St, vm, None, rnd)
            IN  /\ pick.exc = NoExc
                /\ pick.hv = None <=> Candidates = {}
                /\ pick.hv # None => pick.hv \in Candidates
                /\ pick.hv = None => r.exc = NoExc /\ Net(r) = St

\* What holds of different mode: with a last hypervisor and another one
\* registered, every draw is a hypervisor other than the last one, and a
\* launch that succeeds puts the VM on it.
DifferentDraw ==
    (vm_dist_mode = "different" /\ last_HV # None /\ Candidates # {}) =>
        \A vm \in Inactive : \A rnd \in Draws(St) :
            LET pick == getNextDefaultHV(St, rnd)
                r == api_launchVM(St, vm, None, rnd)
            IN  /\ pick.exc = NoExc
                /\ pick.hv \in Candidates
                /\ r.exc = NoExc => r.hv[vm] = pick.hv /\ r.hv[vm] # last_HV

\* ----------------------------------------------------------- cycle mode
\* A fifth part of the network: cycle mode over three hypervisors. The
\* variable cycle holds the cycle (hv_cycle), the position in it
\* (cycle_pos), the hypervisor of each VM, and the hypervisors picked since
\* the last mode command.
MaxPicks == 3

\* The position of a mode command that gives none.
NoPos == -1

Min(S) == CHOOSE x \in S : \A y \in S : x <= y

\* The hypervisor names the operator may type after 'mode cycle <pos>': up to
\* three registered names without repetition, or a name that is not
\* registered.
CycleLists ==
    {<< >>, <<"hx">>} \cup
    {q \in UNION {[1..n -> Range(CycleHVs)] : n \in 1..3} :
        \A i \in DOMAIN q, j \in DOMAIN q : i # j => q[i] # q[j]}

Cyc(c) == [hv_cycle |-> c.hv_cycle, cycle_pos |-> c.cycle_pos, hv |-> c.hv,
           picks |-> c.picks, exc |-> NoExc]

\* changeVMDistributionMode('cycle', {hv_cycle, cycle_pos}): the cycle and
\* the position that are given are taken over (an empty hv_cycle gives
\* none); with no position given the position is taken modulo the length of
\* the cycle.
cycle_changeMode(c, hv_cycle, cycle_pos) ==
    LET new_cycle == IF hv_cycle = << >> THEN c.hv_cycle ELSE hv_cycle
        new_pos == IF cycle_pos # NoPos THEN cycle_pos
                   ELSE IF Len(new_cycle) = 0 THEN 0
                   ELSE c.cycle_pos % Len(new_cycle)
    IN  [c EXCEPT !.hv_cycle = new_cycle, !.cycle_pos = new_pos,
                  !.picks = << >>]

\* A variant of do_mode that hands on the position and not the names.
cycle_do_mode_noNames(c, cycle_pos, names) ==
    IF cycle_pos = NoPos THEN cycle_changeMode(c, << >>, NoPos)
    ELSE IF cycle_pos \notin 0..(Len(c.hv_cycle) - 1)
    THEN Raise(c, "error")
    ELSE cycle_changeMode(c, << >>, cycle_pos)

\* do_mode for 'mode cycle [cycle_pos [hv_name1 hv_name2...]]': the names
\* must be registered hypervisors and the position within the cycle given,
\* or within the present one when none is given.
cycle_do_mode(c, cycle_pos, names) ==
    IF cycle_pos = NoPos THEN cycle_changeMode(c, << >>, NoPos)
    ELSE IF \E i \in DOMAIN names : names[i] \notin Range(CycleHVs)
    THEN Raise(c, "error")                 \* 'No such hypervisor'
    ELSE LET len == IF names # << >> THEN Len(names) ELSE Len(c.hv_cycle)
         IN  IF cycle_pos \notin 0..(len - 1)
             THEN Raise(c, "error")        \* 'cycle_pos not in range'
             ELSE cycle_changeMode(c, names, cycle_pos)

\* The positions of the cycle from the cursor on, wrapping over the whole
\* cycle, whose hypervisor is not the VM's current one.
CycleSlice(c, current) ==
    {k \in 0..(Len(c.hv_cycle) - 1) :
        c.hv_cycle[((c.cycle_pos + k) % Len(c.hv_cycle)) + 1] # current}

\* A variant of the cycle that does not move the cursor.
vm_dist_cycle_stay(c, current) ==
    IF Len(c.hv_cycle) = 0 \/ CycleSlice(c, current) = {}
    THEN [hv |-> None, cycle_pos |-> c.cycle_pos]
    ELSE [hv |-> c.hv_cycle[c.cycle_pos + 1], cycle_pos |-> c.cycle_pos]

\* _vm_dist_cycle: the first hypervisor of the slice, the cursor left behind
\* it; no hypervisor when the cycle is empty or holds the current one only.
vm_dist_cycle(c, current) ==
    IF Len(c.hv_cycle) = 0 \/ CycleSlice(c, current) = {}
    THEN [hv |-> None, cycle_pos |-> c.cycle_pos]
    ELSE LET k == Min(CycleSlice(c, current))
             i == (c.cycle_pos + k) % Len(c.hv_cycle)
         IN  [hv |-> c.hv_cycle[i + 1],
              cycle_pos |-> (i + 1) % Len(c.hv_cycle)]

\* do_launch with no hypervisor name, in cycle mode: the VM must not run;
\* launchVM asks the cycle and launches on the hypervisor it gives.
cycle_launchVM(c, vm) ==
    IF c.hv[vm] # None THEN Raise(c, "error")     \* 'already running'
    ELSE LET pick == vm_dist_cycle(c, c.hv[vm])
         IN  IF pick.hv = None THEN c             \* return and do nothing
             ELSE [c EXCEPT !.hv[vm] = pick.hv,
                            !.cycle_pos = pick.cycle_pos,
                            !.picks = Append(@, pick.hv)]

\* do_stop in cycle mode: the VM must run.
cycle_stopVM(c, vm) ==
    IF c.hv[vm] = None THEN Raise(c, "error")     \* 'not running'
    ELSE [c EXCEPT !.hv[vm] = None]

ApplyCycle(r) ==
    /\ Len(r.picks) <= MaxPicks
    /\ cycle' = [hv_cycle |-> r.hv_cycle, cycle_pos |-> r.cycle_pos,
                 hv |-> r.hv, picks |-> r.picks]
    /\ UNCHANGED netvars
    /\ UNCHANGED <<fabric, comps>>

InitCycle ==
    /\ InitNet
    /\ HVs = <<"h1", "h2">>
    /\ hv_limit = [h \in HVNames |-> 0]
    /\ vm_dist_limit = 1
    /\ controller_socket
    /\ fabric = FabricStart(FabSwitches)
    /\ cycle = NoCycle
    /\ comps = NoComps

CycleMode ==
    \E cycle_pos \in (0..3) \cup {NoPos}, names \in CycleLists :
        ApplyCycle(cycle_do_mode(Cyc(cycle), cycle_pos, names))

CycleLaunch == \E vm \in CycleVMs : ApplyCycle(cycle_launchVM(Cyc(cycle), vm))

CycleStop == \E vm \in CycleVMs : ApplyCycle(cycle_stopVM(Cyc(cycle), vm))

NextCycle == CycleMode \/ CycleLaunch \/ CycleStop

SpecCycle == InitCycle /\ [][NextCycle]_vars

CycleInOrderMade ==
    (cycle.hv_cycle = CycleHVs /\ Len(cycle.picks) = 3
        /\ cycle.picks[1] = "h1") =>
            cycle.picks = CycleHVs /\ cycle.cycle_pos = 0

ModeInputs == possible_modes \cup {"bogus", "cycle"}

LimitInputs == {NoLimit, 0, 1, 2}

ModeArgs == {<< >>} \cup {<<w>> : w \in ModeWords}
                     \cup {<<w, "2">> : w \in ModeWords}

\* A call of CMSAPI.changeVMDistributionMode that is to be rejected: the
\* mode is unknown, the limit is not positive, or a limit comes with a mode
\* other than packed.
BadModeCall(mode, limit) ==
    \/ mode \notin possible_modes
    \/ limit # NoLimit /\ (limit <= 0 \/ mode # "packed")

\* A 'mode' command that is to be rejected: the mode is unknown, or it comes
\* with an argument it has no use for (any for a mode other than packed,
\* same and different; a second one; a limit that is no positive integer; a
\* last hypervisor that is not a registered one).
BadModeCommand(mode, args) ==
    \/ mode \notin possible_modes
    \/ Len(args) > 1
    \/ Len(args) = 1 /\ mode \notin {"packed", "same", "different"}
    \/ Len(args) = 1 /\ mode = "packed" /\ args[1] \notin {"2"}
    \/ Len(args) = 1 /\ mode \in {"same", "different"}
                     /\ args[1] \notin HVSet(St)

ModeErrors ==
    {"CMSInvalidChoiceValueError", "CMSNonpositiveValueError",
     "CMSInvalidParameterValueError", "error"}

KillEffect ==
    \A h \in HVSet(St) :
        enabled[h] =>
            LET r == api_killHV(St, h)
            IN  /\ r.exc = NoExc
                /\ ~r.enabled[h]
                /\ r.nameToVMs[h] = {}
                /\ \A vm \in nameToVMs[h] :
                       /\ ~is_running(r, vm)
                       /\ r.link[vm] = Dummy
                       /\ \A g \in HVNames : vm \notin r.nameToVMs[g]

\* What killHV does: on an enabled hypervisor it returns with the network
\* as it was, on a disabled one it is rejected.
KillDoesNothing ==
    \A h \in HVSet(St) :
        LET r == api_killHV(St, h)
        IN  /\ Net(r) = St
            /\ r.exc = NoExc <=> enabled[h]

\* ------------------------------------------------------ component names
\* A sixth part of the network: the VM objects with the names they carry
\* now, and the maps the network keeps by name (CMSnet.nameToComp, Mininet's
\* nameToNode, each hypervisor's nameToVMs, the configuration files). The
\* hypervisors h1 and h2 are registered and enabled throughout.
Obj(c) == [VMs |-> c.VMs, name |-> c.name, hv |-> c.hv,
           nameToComp |-> c.nameToComp, nameToNode |-> c.nameToNode,
           nameToVMs |-> c.nameToVMs, files |-> c.files, exc |-> NoExc]

\* A variant of the hv setter that leaves the entry of the old hypervisor.
obj_set_hv_keepOld(c, o, h) ==
    LET c1 == [c EXCEPT !.hv[o] = h]
        c2 == IF h = None THEN c1
              ELSE [c1 EXCEPT !.nameToVMs[h] = Put(@, c.name[o], o)]
    IN  [c2 EXCEPT !.files = @ \cup {c.name[o]}]

\* VirtualMachine.hv (setter): the entry under the VM's name leaves the old
\* hypervisor's nameToVMs, the VM enters the new one's under its name, and
\* the configuration file is written.
obj_set_hv(c, o, h) ==
    IF c.hv[o] # None /\ c.name[o] \notin DOMAIN c.nameToVMs[c.hv[o]]
    THEN Raise(c, "KeyError")
    ELSE LET c0 == IF c.hv[o] = None THEN c
                   ELSE [c EXCEPT !.nameToVMs[c.hv[o]] = Del(@, c.name[o])]
             c1 == [c0 EXCEPT !.hv[o] = h]
             c2 == IF h = None THEN c1
                   ELSE [c1 EXCEPT !.nameToVMs[h] = Put(@, c.name[o], o)]
         IN  [c2 EXCEPT !.files = @ \cup {c.name[o]}]

\* VirtualMachine.name (setter): CMSComponent's setter removes the old
\* configuration file, renames the node and writes the new file; then the
\* entry in the hypervisor's nameToVMs is moved to the new name.
obj_set_name(c, o, new) ==
    LET old == c.name[o]
        c1 == [c EXCEPT !.files = (@ \ {old}) \cup {new}, !.name[o] = new]
    IN  IF c.hv[o] = None THEN c1
        ELSE IF old \notin DOMAIN c.nameToVMs[c.hv[o]]
        THEN Raise(c1, "KeyError")
        ELSE [c1 EXCEPT !.nameToVMs[c.hv[o]] = Put(Del(@, old), new, o)]

\* createVM(vm_name), the new VM being the object o.
obj_createVM(c, o, vm_name) ==
    IF vm_name \in DOMAIN c.nameToComp THEN Raise(c, "AssertionError")
    ELSE IF vm_name \in c.nameToNode THEN Raise(c, "AssertionError")
    ELSE [c EXCEPT !.nameToNode = @ \cup {vm_name},
                   !.name[o] = vm_name,
                   !.hv[o] = None,
                   !.files = @ \cup {vm_name},
                   !.VMs = @ \cup {o},
                   !.nameToComp = Put(@, vm_name, o)]

\* cloneVM(old_vm, new_vm_name), the clone being the object o.
obj_cloneVM(c, old_vm, o, new_vm_name) ==
    IF old_vm \notin c.VMs \/ new_vm_name \in DOMAIN c.nameToComp
    THEN Raise(c, "AssertionError")
    ELSE obj_createVM(c, o, new_vm_name)

obj_launchVM(c, o, h) ==
    IF o \notin c.VMs \/ c.hv[o] # None THEN Raise(c, "AssertionError")
    ELSE obj_set_hv(c, o, h)

obj_migrateVM(c, o, h) ==
    IF o \notin c.VMs \/ c.hv[o] = None THEN Raise(c, "AssertionError")
    ELSE obj_set_hv(c, o, h)

obj_stopVM(c, o) ==
    IF c.exc # NoExc THEN c
    ELSE IF o \notin c.VMs \/ c.hv[o] = None THEN Raise(c, "AssertionError")
    ELSE obj_set_hv(c, o, None)

\* deleteVM: the stop of a running VM, the second stop, and the removal
\* from VMs and from nameToComp under the VM's name.
obj_deleteVM(c, o) ==
    IF o \notin c.VMs THEN Raise(c, "AssertionError")
    ELSE LET c1 == IF c.hv[o] # None THEN obj_stopVM(c, o) ELSE c
             c2 == obj_stopVM(c1, o)
         IN  IF c2.exc # NoExc THEN c2
             ELSE IF c2.name[o] \notin DOMAIN c2.nameToComp
             THEN Raise([c2 EXCEPT !.VMs = @ \ {o}], "KeyError")
             ELSE [c2 EXCEPT !.VMs = @ \ {o},
                             !.nameToComp = Del(@, c2.name[o]),
                             !.files = @ \ {c2.name[o]}]

ApplyObj(r) ==
    /\ comps' = [VMs |-> r.VMs, name |-> r.name, hv |-> r.hv,
                 nameToComp |-> r.nameToComp, nameToNode |-> r.nameToNode,
                 nameToVMs |-> r.nameToVMs, files |-> r.files]
    /\ UNCHANGED netvars
    /\ UNCHANGED <<fabric, cycle>>

InitObjects ==
    /\ InitNet
    /\ HVs = <<"h1", "h2">>
    /\ hv_limit = [h \in HVNames |-> 0]
    /\ vm_dist_limit = 1
    /\ controller_socket
    /\ fabric = FabricStart(FabSwitches)
    /\ cycle = NoCycle
    /\ comps = NoComps

ObjCreate ==
    \E o \in VMObjs \ comps.VMs, n \in ObjNames :
        ApplyObj(obj_createVM(Obj(comps), o, n))

ObjClone ==
    \E old \in VMObjs, o \in VMObjs \ comps.VMs, n \in ObjNames :
        ApplyObj(obj_cloneVM(Obj(comps), old, o, n))

ObjLaunch ==
    \E o \in VMObjs, h \in HVNames : ApplyObj(obj_launchVM(Obj(comps), o, h))

ObjMigrate ==
    \E o \in VMObjs, h \in HVNames : ApplyObj(obj_migrateVM(Obj(comps), o, h))

ObjStop == \E o \in VMObjs : ApplyObj(obj_stopVM(Obj(comps), o))

ObjDelete == \E o \in VMObjs : ApplyObj(obj_deleteVM(Obj(comps), o))

ObjRename ==
    \E o \in comps.VMs, n \in ObjNames :
        ApplyObj(obj_set_name(Obj(comps), o, n))

NextObjects ==
    \/ ObjCreate
    \/ ObjClone
    \/ ObjLaunch
    \/ ObjMigrate
    \/ ObjStop
    \/ ObjDelete
    \/ ObjRename

SpecObjects == InitObjects /\ [][NextObjects]_vars

\* The VM o is stored in the hosted map of the hypervisor h under the name
\* it carries now.
Hosted(c, o, h) ==
    c.name[o] \in DOMAIN c.nameToVMs[h] /\ c.nameToVMs[h][c.name[o]] = o

\* Every VM is in the hosted map of h under its name exactly if h is its
\* hypervisor, and h hosts as many VMs as have h for their hypervisor.
HostedMatches(c) ==
    \A h \in HVNames :
        /\ \A o \in c.VMs : Hosted(c, o, h) <=> c.hv[o] = h
        /\ Cardinality(DOMAIN c.nameToVMs[h]) =
               Cardinality({o \in c.VMs : c.hv[o] = h})

\* The VMs carry different names.
NamesDistinct(c) ==
    \A a \in c.VMs, b \in c.VMs : a # b => c.name[a] # c.name[b]

\* C33: after any launches, migrations, stops and renamings a VM is in a
\* hypervisor's hosted map under its present name exactly if that is its
\* running hypervisor; no VM is in two maps, and a hypervisor hosts as many
\* VMs as run on it.
HostedIffRunning == HostedMatches(comps)

\* What holds of the hosted maps: a step between two states in which the
\* VMs carry different names keeps them matching.
HostedKeptWhileDistinct ==
    [][(HostedMatches(comps) /\ NamesDistinct(comps)
           /\ NamesDistinct(comps')) => HostedMatches(comps')]_vars

\* The keys of CMSnet.nameToComp that stand for VMs are the names the VMs
\* carry now, each key leading to the VM of that name.
RegistryMatches(c) ==
    /\ DOMAIN c.nameToComp = {c.name[o] : o \in c.VMs}
    /\ \A o \in c.VMs : c.nameToComp[c.name[o]] = o

\* C39: after any creations, clonings, deletions and renamings every
\* registered VM is found in nameToComp under the name it carries now, and
\* nameToComp has no other key for a VM.
RegistryByName == RegistryMatches(comps)

\* What holds of the registry: a step that leaves every registered VM its
\* name keeps the keys matching.
RegistryKeptWithoutRename ==
    [][(RegistryMatches(comps)
           /\ \A o \in comps.VMs : comps'.name[o] = comps.name[o])
          => RegistryMatches(comps')]_vars

\* ------------------------------------------------------- fabric tables
\* On every node the three tables hold the same links: a host is under a
\* port in intfs exactly if it has that port in ports, its name leads to it
\* in nameToIntf and nameToIntf has no other names, no two hosts share a
\* port or a name, and the host's node is the node whose tables hold it.
TablesConsistent(t) ==
    \A n \in FabNodes :
        /\ Range(t.intfs[n]) = DOMAIN t.ports[n]
        /\ Range(t.nameToIntf[n]) = DOMAIN t.ports[n]
        /\ Cardinality(DOMAIN t.intfs[n]) = Cardinality(DOMAIN t.ports[n])
        /\ Cardinality(DOMAIN t.nameToIntf[n]) =
               Cardinality(DOMAIN t.ports[n])
        /\ \A h \in DOMAIN t.ports[n] :
               /\ t.intfs[n][t.ports[n][h]] = h
               /\ t.name[h] \in DOMAIN t.nameToIntf[n]
               /\ t.nameToIntf[n][t.name[h]] = h
               /\ t.node[h] = n
        /\ \A h \in FabHosts : t.node[h] = n => h \in DOMAIN t.ports[n]

\* Every link is called after its node and port, as Mininet calls it.
NamesFollowPorts(t) ==
    \A h \in FabHosts :
        /\ h \in DOMAIN t.ports[t.node[h]]
        /\ t.name[h] = intfName(t.node[h], t.ports[t.node[h]][h])

\* C34: after any _moveLink, _removeLink and _swapLink calls the three
\* tables of every node hold the same links under pairwise different ports
\* and names, and every link's node is the node whose tables hold it.
FabricTablesConsistent == TablesConsistent(Tables(fabric))

\* What holds of the tables: from tables that are consistent, with every
\* link called after its node and port, a _moveLink, or a _removeLink as
\* stopVM calls it, in which no fabric step fails leaves them so.
MoveKeepsTables ==
    (TablesConsistent(Tables(fabric)) /\ NamesFollowPorts(Tables(fabric))) =>
        /\ \A host \in FabHosts, node2 \in FabNodes :
               LET r == fab_moveLink(Fab("none"), host, node2, None)
               IN  /\ r.exc = NoExc
                   /\ TablesConsistent(Tables(r))
                   /\ NamesFollowPorts(Tables(r))
        /\ \A host \in FabHosts :
               LET r == fab_removeLink(Fab("none"), host, TRUE)
               IN  /\ r.exc = NoExc
                   /\ TablesConsistent(Tables(r))
                   /\ NamesFollowPorts(Tables(r))

\* ---------------------------------------------- launch and the paused flag
\* A launch of vm that went through: the VM did not run before and runs now.
Launched(r, vm) == r.exc = NoExc /\ ~is_running(St, vm) /\ is_running(r, vm)

\* C35: immediately after any successful launch the VM is Running and not
\* paused, whatever came before it (a pause followed by a stop included).
LaunchedNotPaused ==
    \A vm \in VMs, h \in HVNames \cup {None} :
        \A rnd \in (IF h = None THEN Draws(St) ELSE {None}) :
            LET r == api_launchVM(St, vm, h, rnd)
            IN  Launched(r, vm) => is_running(r, vm) /\ ~is_paused(r, vm)

\* What holds of the launch: it leaves _is_paused as it finds it, so the VM
\* it starts reports paused exactly when the flag outlived the last stop.
LaunchKeepsPausedFlag ==
    \A vm \in VMs, h \in HVNames \cup {None} :
        \A rnd \in (IF h = None THEN Draws(St) ELSE {None}) :
            LET r == api_launchVM(St, vm, h, rnd)
            IN  Launched(r, vm) => is_paused(r, vm) = paused[vm]

\* What holds of the flag: it is raised only on a VM that runs, and the step
\* that raises it leaves the VM on its hypervisor.
PausedFlagRaisedWhileRunning ==
    [][\A vm \in VMNames :
          ~paused[vm] /\ paused'[vm] => hv[vm] # None /\ hv'[vm] = hv[vm]]_vars

\* ------------------------------------------------------- the order of stop
\* The steps of stopVM on a running VM, in the order the code makes them,
\* each with the network as the step leaves it: vm.stop() assigns hv = None
\* (the setter leaves the hosted set and saves the configuration) and then
\* calls run_vm_script("stop"); stopVM then calls _removeLink and sends
\* 'destroyed'.
stopVM_steps(s, vm) ==
    LET s1 == vm_stop(s, vm)
        s2 == removeLink(s1, vm)
        s3 == send_msg_to_controller(s2, "destroyed", vm)
    IN  <<[ev |-> "hv", st |-> s1],
          [ev |-> "stop_script", st |-> s1],
          [ev |-> "removeLink", st |-> s2],
          [ev |-> "destroyed", st |-> s3]>>

\* The place of a step in the sequence.
StepAt(t, ev) == CHOOSE i \in 1..Len(t) : t[i].ev = ev

\* The running hypervisor and the endpoint when a step is made are those the
\* step before it left (those of the call's start for the first step).
Before(s, t, ev) == IF StepAt(t, ev) = 1 THEN s ELSE t[StepAt(t, ev) - 1].st

\* C36: stop performs its effects in this order: the stop hook runs while
\* running_hypervisor is still set, then the endpoint is moved to the sink,
\* then running_hypervisor is cleared, then 'destroyed' is sent.
StopInOrder ==
    \A vm \in VMs :
        is_running(St, vm) /\ api_stopVM(St, vm).exc = NoExc =>
            LET t == stopVM_steps(St, vm)
            IN  /\ StepAt(t, "stop_script") < StepAt(t, "removeLink")
                /\ StepAt(t, "removeLink") < StepAt(t, "hv")
                /\ StepAt(t, "hv") < StepAt(t, "destroyed")
                /\ is_running(Before(St, t, "stop_script"), vm)

\* What holds of the order: running_hypervisor is cleared first, so the stop
\* hook is called on a VM that no longer runs and whose endpoint is still on
\* the hypervisor; then the endpoint goes to the sink, and 'destroyed' comes
\* last; the steps make up the whole of stopVM.
StopOrderMade ==
    \A vm \in VMs :
        is_running(St, vm) /\ api_stopVM(St, vm).exc = NoExc =>
            LET t == stopVM_steps(St, vm)
            IN  /\ StepAt(t, "hv") < StepAt(t, "stop_script")
                /\ StepAt(t, "stop_script") < StepAt(t, "removeLink")
                /\ StepAt(t, "removeLink") < StepAt(t, "destroyed")
                /\ ~is_running(Before(St, t, "stop_script"), vm)
                /\ Before(St, t, "stop_script").link[vm] = hv[vm]
                /\ ~is_running(Before(St, t, "removeLink"), vm)
                /\ Before(St, t, "destroyed").link[vm] = Dummy
                /\ t[Len(t)].st = api_stopVM(St, vm)

\* ------------------------------------------------- disabled hypervisors
\* The hypervisor a launch of vm is aimed at: the one given, or the one
\* automatic placement selects.
Target(h, rnd) == IF h = None THEN getNextDefaultHV(St, rnd).hv ELSE h

\* The call that ended in r raised and left every VM, hosted set and link
\* as they were.
Refused(r) ==
    /\ r.exc # NoExc
    /\ r.hv = hv /\ r.paused = paused /\ r.VMs = VMs
    /\ r.nameToVMs = nameToVMs /\ r.link = link

\* No VM has been put on a hypervisor that is disabled.
PlacedOnEnabled(r) ==
    \A v \in VMNames : r.hv[v] # None /\ r.hv[v] # hv[v] => enabled[r.hv[v]]

\* C37: no launch or migrate, with an explicit or an automatically selected
\* target, sets a VM's running_hypervisor to a hypervisor that is disabled
\* at that moment; an attempt with a disabled target is rejected with VM,
\* hosted-set and topology state unchanged.
NeverOnDisabled ==
    \A vm \in VMs, h \in HVNames \cup {None} :
        /\ \A rnd \in (IF h = None THEN Draws(St) ELSE {None}) :
             \A r \in {api_launchVM(St, vm, h, rnd), launchVM(St, vm, h, rnd)} :
                /\ PlacedOnEnabled(r)
                /\ r.enabled = enabled
                /\ (Target(h, rnd) \in HVSet(St) /\ ~enabled[Target(h, rnd)])
                       => Refused(r)
        /\ \A r \in {api_migrateVM(St, vm, h), migrateVM(St, vm, h)} :
                /\ PlacedOnEnabled(r)
                /\ r.enabled = enabled
                /\ (h \in HVSet(St) /\ ~enabled[h]) => Refused(r)

\* A launch and a migrate aimed at a disabled hypervisor are refused, while
\* the same calls aimed at an enabled one go through.
NeverOnDisabledWitness ==
    \E vm \in VMs, w \in VMs, d \in HVSet(St), e \in HVSet(St) :
        /\ ~enabled[d] /\ enabled[e]
        /\ ~is_running(St, vm) /\ is_running(St, w) /\ hv[w] = e
        /\ api_launchVM(St, vm, d, None).exc = "CMSHypervisorEnabledStateError"
        /\ api_migrateVM(St, w, d).exc = "CMSHypervisorEnabledStateError"
        /\ api_launchVM(St, vm, e, None).hv[vm] = e

\* ------------------------------------- automatic placement and disabled
\* The hypervisors the current mode can choose among: in sparse (packed)
\* mode those with the fewest (the most, under capacity) hosted VMs.
Eligible ==
    CASE vm_dist_mode = "random" -> HVSet(St)
      [] vm_dist_mode = "sparse" ->
             {g \in HVSet(St) :
                 \A k \in HVSet(St) : hosted_count(g) <= hosted_count(k)}
      [] vm_dist_mode = "packed" ->
             {g \in UnderCapacity :
                 \A k \in UnderCapacity : hosted_count(g) >= hosted_count(k)}
      [] vm_dist_mode = "different" /\ last_HV # None -> HVSet(St) \ {last_HV}
      [] OTHER -> {getNextDefaultHV(St, None).hv} \cap HVSet(St)

\* C38: automatic placement never proposes a disabled hypervisor: whenever a
\* launch with no target has at least one enabled hypervisor eligible under
\* the current mode, the hypervisor it chooses is enabled and the launch
\* succeeds.
AutoPlacesOnEnabled ==
    \A vm \in Inactive : \A rnd \in Draws(St) :
        (\E g \in Eligible : enabled[g]) =>
            LET p == getNextDefaultHV(St, rnd)
                r == api_launchVM(St, vm, None, rnd)
            IN  /\ p.exc = NoExc
                /\ p.hv \in HVSet(St) /\ enabled[p.hv]
                /\ r.exc = NoExc /\ r.hv[vm] = p.hv

\* What holds of automatic placement: the mode chooses among the eligible
\* hypervisors without looking at enabled; the launch goes through on the
\* chosen hypervisor when it is enabled and fails the assertion, with the
\* network left as it was, when it is disabled.
AutoPlaceIgnoresEnabled ==
    \A vm \in Inactive : \A rnd \in Draws(St) :
        LET p == getNextDefaultHV(St, rnd)
            r == api_launchVM(St, vm, None, rnd)
        IN  (p.exc = NoExc /\ p.hv # None) =>
                /\ p.hv \in Eligible
                /\ enabled[p.hv] => r.exc = NoExc /\ r.hv[vm] = p.hv
                /\ ~enabled[p.hv] => r.exc = "AssertionError" /\ Net(r) = St

\* ------------------------------------------------- shutdown and next start
\* VirtualMachine.shutdown: a VM that runs has its configuration file locked
\* and is stopped; the save the hv setter asks for returns at once, so the
\* file keeps what it held.
vm_shutdown(s, vm) ==
    IF s.exc # NoExc \/ ~is_running(s, vm) THEN s
    ELSE [vm_stop(s, vm) EXCEPT !.config = s.config]

\* CMSnet.stop: the controller connection is closed and every VM shut down.
RECURSIVE net_stop_from(_, _)
net_stop_from(s, vms) ==
    IF vms = {} THEN s
    ELSE LET vm == CHOOSE v \in vms : TRUE
         IN  net_stop_from(vm_shutdown(s, vm), vms \ {vm})

net_stop(s) == net_stop_from([s EXCEPT !.controller_socket = FALSE], s.VMs)

\* CMSnet.start of a new network in the folder d left: the hypervisors are
\* collected, each with the limit and the enabled flag of its own file, no
\* hypervisor chosen yet, and get_old_VMs goes through the files of the VMs.
net_start(d) ==
    LET c == [d EXCEPT !.VMs = {},
                       !.nameToComp = HVSet(d),
                       !.hv = [v \in DOMAIN d.hv |-> None],
                       !.paused = [v \in DOMAIN d.hv |-> FALSE],
                       !.link = [v \in DOMAIN d.hv |-> NoNode],
                       !.nameToVMs = [h \in DOMAIN d.nameToVMs |-> {}],
                       !.last_HV = None,
                       !.sent = << >>,
                       !.exc = NoExc]
    IN  get_old_VMs(c, {v \in DOMAIN d.config : d.config[v] # NoFile})

\* C40: network shutdown stops every running VM without rewriting its saved
\* configuration, which still names the hypervisor the VM ran on; at the
\* next start each such VM is created again and launched on that same
\* hypervisor, and the VMs that were inactive at shutdown stay inactive.
RestartKeepsPlacement ==
    LET d == net_stop(St)
        r == net_start(d)
    IN  /\ d.exc = NoExc
        /\ \A vm \in VMs : ~is_running(d, vm)
        /\ d.config = config
        /\ \A vm \in VMs : config[vm].config_hv_name = hv[vm]
        /\ r.exc = NoExc
        /\ r.VMs = VMs
        /\ r.hv = hv

\* What holds of the round trip: the shutdown stops every VM and leaves the
\* files as they were; when every VM that runs is on an enabled hypervisor
\* the next start has every VM again, each on the hypervisor it ran on or
\* inactive as before; when one runs on a disabled hypervisor the start
\* ends in AssertionError.
RestartWhileEnabled ==
    LET d == net_stop(St)
        r == net_start(d)
        onDisabled == {vm \in VMs : is_running(St, vm) /\ ~enabled[hv[vm]]}
    IN  /\ d.exc = NoExc
        /\ \A vm \in VMs : ~is_running(d, vm)
        /\ d.config = config
        /\ \A vm \in VMs : config[vm].config_hv_name = hv[vm]
        /\ onDisabled = {} => r.exc = NoExc /\ r.VMs = VMs /\ r.hv = hv
        /\ onDisabled # {} => r.exc = "AssertionError"

====
